---- MODULE Spec2Model ----
(***************************************************************************)
(* A model of xml-rs: the writer's emit engine (src/writer/emitter.rs),    *)
(* the lexer (src/reader/lexer.rs) and the reader facade (src/reader.rs)   *)
(* over the pull parser.                                                   *)
(*                                                                         *)
(* The module holds state machines that share no state:                    *)
(*   SpecWriter     the Emitter driven by an arbitrary sequence of events; *)
(*   Spec           the EventReader / Events iterator over a byte source   *)
(*                  that may grow between polls;                           *)
(*   SpecEntity     the reader on documents whose entities refer to        *)
(*                  themselves (entity expansion limits);                  *)
(*   SpecUndeclared the reader on documents that refer to an entity only   *)
(*                  add_entities can define;                               *)
(*   SpecText       one CDATA section or comment written by the emitter,   *)
(*                  or one processing instruction, read back by the lexer; *)
(*   SpecNamespace  the namespace declarations of start tags;              *)
(*   SpecLexer      the Lexer reading one input token by token;            *)
(*   SpecReparse    the Lexer on a source that grows, with reparse and     *)
(*                  reset_eof_handled called between the tokens.           *)
(* Each specification keeps the variables of the others at their initial   *)
(* value.                                                                  *)
(***************************************************************************)
EXTENDS Integers, Sequences, FiniteSets, TLC

VARIABLES
    \* ---- writer (Emitter, emitter.rs:84-96, and its byte sink) ----
    emitter,      \* the Emitter struct: config and the mutable fields
    target,       \* the bytes written so far, as a sequence of chunks
    last_call,    \* the emitter operation called last, with its argument
    last_result,  \* what that call returned: "Ok" or an EmitterError
    all_ok,       \* history: no emitter operation has failed so far
    calls,        \* number of emitter operations called so far
    just_started, \* history: the event written last is a start element
                  \* (a StartDocument written since does not count)
    mixed,        \* history: for each element still open, the outermost
                  \* first, whether character data was written directly
                  \* inside it
    \* ---- reader (EventReader and Events, reader.rs) ----
    doc,          \* the whole document the producer will have written
    fed,          \* how many of its characters the producer has written
    source,       \* the written characters the reader has not read yet
    parser,       \* EventReader.parser: the PullParser with its lexer
    via,          \* how the reader is polled: "reader" (next) or "events"
    finished,     \* Events.finished
    last_ev,      \* what the last call of EventReader::next returned
    last_item,    \* what the last call of Events::next returned
    delivered,    \* history: the events returned so far, in order
    whole,        \* what a reader given the whole of doc at once returns
    repeats,      \* history: calls of EventReader::next after a final result
    it_terminals, \* history: final results returned by Events::next
    skips,        \* history: number of calls of EventReader::skip
    skip_result,  \* what the last call of EventReader::skip returned
    adds,         \* history: number of calls of add_entities
    add_result,   \* what the last call of add_entities returned
    \* ---- one text written and read back (emitter.rs, lexer.rs) ----
    t_kind,       \* what the text is: "cdata", "comment" or "pi"
    t_content,    \* the string of the event, or the data of the instruction
    t_autopad,    \* EmitterConfig.autopad_comments
    t_result,     \* what the write returned ("None" before it is called)
    t_output,     \* the characters the write put out
    t_unread,     \* those of them the lexer has not read yet
    t_lexer,      \* the Lexer reading them back
    t_tokens,     \* history: the tokens next_token returned, in order
    t_error,      \* the error next_token returned, NoErr if none
    \* ---- the writer's namespace stack (Emitter.nst) ----
    nst,          \* the frames, the top one last; a frame maps prefixes to URIs
    ns_op,        \* the event written last: "start", "end" or "new"
    ns_written,   \* the declarations written in the last start tag, in order
    \* ---- the Lexer on its own (lexer.rs) ----
    lx_input,     \* the characters the source was given so far, in order
    lx_source,    \* those of them the lexer has not read yet
    lx_lexer,     \* the Lexer
    lx_op,        \* the operation called last, with its argument
    lx_result,    \* what that call returned: a token and an error
    lx_prev,      \* the lexer and the unread source before that call
    lx_tokens,    \* history: what next_token returned, in order
    lx_after,     \* history: calls of next_token made after the end of stream
    lx_ops        \* history: calls of reparse and reset_eof_handled

wvars == <<emitter, target, last_call, last_result, all_ok, calls, just_started,
           mixed>>

rvars == <<doc, fed, source, parser, via, finished, last_ev, last_item,
           delivered, whole, repeats, it_terminals, skips, skip_result,
           adds, add_result>>

tvars == <<t_kind, t_content, t_autopad, t_result, t_output, t_unread,
           t_lexer, t_tokens, t_error>>

nvars == <<nst, ns_op, ns_written>>

lvars == <<lx_input, lx_source, lx_lexer, lx_op, lx_result, lx_prev, lx_tokens,
           lx_after, lx_ops>>

vars == <<emitter, target, last_call, last_result, all_ok, calls, just_started,
          mixed,
          doc, fed, source, parser, via, finished, last_ev, last_item,
          delivered, whole, repeats, it_terminals, skips, skip_result,
          adds, add_result,
          t_kind, t_content, t_autopad, t_result, t_output, t_unread,
          t_lexer, t_tokens, t_error, nst, ns_op, ns_written,
          lx_input, lx_source, lx_lexer, lx_op, lx_result, lx_prev, lx_tokens,
          lx_after, lx_ops>>

(***************************************************************************)
(* Bounds of the writer model.                                             *)
(***************************************************************************)
MaxCalls == 4

ElementNames == {"a", "b"}

\* Option<Name>::None of XmlEvent::EndElement
NoName == "None"

Last(s) == s[Len(s)]

Front(s) == SubSeq(s, 1, Len(s) - 1)

(***************************************************************************)
(* Output chunks.  One chunk stands for one piece of text the emitter      *)
(* writes with a single write!/write_all (or a fixed run of them).         *)
(*   xmldecl n   <?xml version="1.0" encoding="UTF-8"[ standalone="n"]?>   *)
(*   newline l   line_separator followed by l times indent_string          *)
(*   pi          <?name data?>                                             *)
(*   stag n      <n  (the start tag without its closing >)                 *)
(*   gt          >   closing a start tag                                   *)
(*   selfclose n the self-closing terminator, n = " />" or "/>"            *)
(*   etag n      </n>                                                      *)
(*   cdata       <![CDATA[ ... ]]>                                         *)
(*   text        character data (escaped or raw)                           *)
(*   comment     <!-- ... -->                                              *)
(***************************************************************************)
Chunk(k, n, l) == [k |-> k, n |-> n, l |-> l]

XmlDecl(standalone) == Chunk("xmldecl", standalone, 0)

\* What an emitter function returns: the emitter after the call, the sink
\* after the call and the Result.
R(e, out, res) == [e |-> e, out |-> out, res |-> res]

\* EmitterConfig: the options the emit engine reads.
EmitterConfigs ==
    { c \in [ keep_element_names_stack : BOOLEAN,
              normalize_empty_elements : BOOLEAN,
              write_document_declaration : BOOLEAN,
              perform_indent : BOOLEAN,
              cdata_to_characters : BOOLEAN,
              pad_self_closing : BOOLEAN,
              indent_string_is_empty : BOOLEAN ] :
        \* options that are never read under the others keep their default
        /\ (~c.normalize_empty_elements => c.pad_self_closing)
        /\ (~c.perform_indent => ~c.indent_string_is_empty) }

\* Emitter::new
EmitterNew(config) ==
    [ config |-> config,
      indent_level |-> 0,
      indent_stack |-> <<"WroteNothing">>,
      element_names |-> <<>>,
      start_document_emitted |-> FALSE,
      just_wrote_start_element |-> FALSE ]

wrote_text(e) ==
    e.indent_stack # <<>> /\ Last(e.indent_stack) = "WroteText"

wrote_markup(e) ==
    e.indent_stack # <<>> /\ Last(e.indent_stack) = "WroteMarkup"

set_wrote_text(e) ==
    IF e.indent_stack = <<>> THEN e
    ELSE [e EXCEPT !.indent_stack = [@ EXCEPT ![Len(@)] = "WroteText"]]

set_wrote_markup(e) ==
    IF e.indent_stack = <<>> THEN e
    ELSE [e EXCEPT !.indent_stack = [@ EXCEPT ![Len(@)] = "WroteMarkup"]]

write_newline(out, level) == Append(out, Chunk("newline", "", level))

after_markup(e) == set_wrote_markup(e)

\* a before_markup that indents after text as well
before_markup_after_text(e, out) ==
    IF /\ e.config.perform_indent
       /\ (e.indent_level > 0 \/ wrote_markup(e) \/ wrote_text(e))
    THEN R(IF e.indent_level > 0 /\ ~e.config.indent_string_is_empty
              THEN after_markup(e) ELSE e,
           write_newline(out, e.indent_level), "Ok")
    ELSE R(e, out, "Ok")

before_markup(e, out) ==
    IF /\ e.config.perform_indent
       /\ ~wrote_text(e)
       /\ (e.indent_level > 0 \/ wrote_markup(e))
    THEN R(IF e.indent_level > 0 /\ ~e.config.indent_string_is_empty
              THEN after_markup(e) ELSE e,
           write_newline(out, e.indent_level), "Ok")
    ELSE R(e, out, "Ok")

before_start_element(e, out) ==
    LET b == before_markup(e, out)
    IN  R([b.e EXCEPT !.indent_stack = Append(@, "WroteNothing")], b.out, "Ok")

after_start_element(e) ==
    [after_markup(e) EXCEPT !.indent_level = @ + 1]

before_end_element(e, out) ==
    IF /\ e.config.perform_indent
       /\ e.indent_level > 0
       /\ wrote_markup(e)
       /\ ~wrote_text(e)
    THEN write_newline(out, e.indent_level - 1)
    ELSE out

\* an after_end_element that leaves the frame of the closed element on the
\* indent stack
after_end_element_keeps_frame(e) ==
    set_wrote_markup(
        IF e.indent_level > 0 THEN [e EXCEPT !.indent_level = @ - 1] ELSE e)

after_end_element(e) ==
    set_wrote_markup(
        IF e.indent_level > 0
        THEN [e EXCEPT !.indent_level = @ - 1, !.indent_stack = Front(@)]
        ELSE e)

after_text(e) == set_wrote_text(e)

emit_start_document_unguarded(e, out, standalone) ==
    LET b == before_markup(e, out)
    IN  R(after_markup([b.e EXCEPT !.start_document_emitted = TRUE]),
          Append(b.out, XmlDecl(standalone)), "Ok")

emit_start_document(e, out, standalone) ==
    IF e.start_document_emitted
    THEN R(e, out, "DocumentStartAlreadyEmitted")
    ELSE LET e1 == [e EXCEPT !.start_document_emitted = TRUE]
             b == before_markup(e1, out)
         IN  R(after_markup(b.e), Append(b.out, XmlDecl(standalone)), "Ok")

check_document_started_strict(e, out) ==
    IF e.start_document_emitted THEN R(e, out, "Ok")
    ELSE IF e.config.write_document_declaration
         THEN emit_start_document(e, out, "none")
         ELSE R(e, out, "DocumentStartNotEmitted")

check_document_started(e, out) ==
    IF ~e.start_document_emitted /\ e.config.write_document_declaration
    THEN emit_start_document(e, out, "none")
    ELSE R(e, out, "Ok")

\* a fix_non_empty_element that forgets that the start tag is now closed
fix_non_empty_element_keeps_flag(e, out) ==
    IF e.config.normalize_empty_elements /\ e.just_wrote_start_element
    THEN R(e, Append(out, Chunk("gt", "", 0)), "Ok")
    ELSE R(e, out, "Ok")

fix_non_empty_element(e, out) ==
    IF e.config.normalize_empty_elements /\ e.just_wrote_start_element
    THEN R([e EXCEPT !.just_wrote_start_element = FALSE],
           Append(out, Chunk("gt", "", 0)), "Ok")
    ELSE R(e, out, "Ok")

emit_processing_instruction(e, out) ==
    LET c == check_document_started(e, out) IN
    IF c.res # "Ok" THEN c ELSE
    LET f == fix_non_empty_element(c.e, c.out)
        b == before_markup(f.e, f.out)
    IN  R(after_markup(b.e), Append(b.out, Chunk("pi", "", 0)), "Ok")

\* emit_current_namespace_attributes and emit_attributes write inside the
\* start tag; the events of this model carry no attributes and an empty
\* namespace frame, so they add nothing to the "stag" chunk.
emit_start_element_initial(e, out, name) ==
    LET c == check_document_started(e, out) IN
    IF c.res # "Ok" THEN c ELSE
    LET f == fix_non_empty_element(c.e, c.out)
        b == before_start_element(f.e, f.out)
    IN  R(after_start_element(b.e), Append(b.out, Chunk("stag", name, 0)), "Ok")

emit_start_element_no_push(e, out, name) ==
    LET i == emit_start_element_initial(e, out, name) IN
    IF i.res # "Ok" THEN i ELSE
    R([i.e EXCEPT !.just_wrote_start_element = TRUE],
      IF ~e.config.normalize_empty_elements
      THEN Append(i.out, Chunk("gt", "", 0)) ELSE i.out,
      "Ok")

emit_start_element(e, out, name) ==
    LET e1 == IF e.config.keep_element_names_stack
              THEN [e EXCEPT !.element_names = Append(@, name)] ELSE e
        i == emit_start_element_initial(e1, out, name)
    IN  IF i.res # "Ok" THEN i ELSE
        R([i.e EXCEPT !.just_wrote_start_element = TRUE],
          IF ~e.config.normalize_empty_elements
          THEN Append(i.out, Chunk("gt", "", 0)) ELSE i.out,
          "Ok")

\* The tail of emit_end_element (emitter.rs:377-395) once the tracked name
\* (owned_name, NoName when tracking is off) is known.
write_end_element(e, out, owned_name, name) ==
    LET n == IF owned_name # NoName THEN owned_name ELSE name IN
    IF n = NoName THEN R(e, out, "EndElementNameIsNotSpecified")
    ELSE IF e.config.normalize_empty_elements /\ e.just_wrote_start_element
    THEN R(after_end_element([e EXCEPT !.just_wrote_start_element = FALSE]),
           Append(out, Chunk("selfclose",
                             IF e.config.pad_self_closing THEN " />" ELSE "/>", 0)),
           "Ok")
    ELSE LET e1 == [e EXCEPT !.just_wrote_start_element = FALSE]
         IN  R(after_end_element(e1),
               Append(before_end_element(e1, out), Chunk("etag", n, 0)),
               "Ok")

\* an emit_end_element that compares the names before it pops the tracked one
emit_end_element_compares_first(e, out, name) ==
    IF e.config.keep_element_names_stack
    THEN IF e.element_names = <<>>
         THEN R(e, out, "LastElementNameNotAvailable")
         ELSE IF name # NoName /\ Last(e.element_names) # name
         THEN R(e, out, "EndElementNameIsNotEqualToLastStartElementName")
         ELSE write_end_element([e EXCEPT !.element_names = Front(@)], out,
                                Last(e.element_names), name)
    ELSE write_end_element(e, out, NoName, name)

emit_end_element_unchecked(e, out, name) ==
    IF e.config.keep_element_names_stack
    THEN IF e.element_names = <<>>
         THEN R(e, out, "LastElementNameNotAvailable")
         ELSE write_end_element([e EXCEPT !.element_names = Front(@)], out,
                                Last(e.element_names), name)
    ELSE write_end_element(e, out, NoName, name)

emit_end_element(e, out, name) ==
    IF e.config.keep_element_names_stack
    THEN IF e.element_names = <<>>
         THEN R(e, out, "LastElementNameNotAvailable")
         ELSE LET owned_name == Last(e.element_names)
                  e1 == [e EXCEPT !.element_names = Front(@)]
              IN  IF name # NoName /\ owned_name # name
                  THEN R(e1, out, "EndElementNameIsNotEqualToLastStartElementName")
                  ELSE write_end_element(e1, out, owned_name, name)
    ELSE write_end_element(e, out, NoName, name)

emit_characters(e, out) ==
    LET c == check_document_started(e, out) IN
    IF c.res # "Ok" THEN c ELSE
    LET f == fix_non_empty_element(c.e, c.out)
    IN  R(after_text(f.e), Append(f.out, Chunk("text", "", 0)), "Ok")

emit_raw_characters(e, out) ==
    LET c == check_document_started(e, out) IN
    IF c.res # "Ok" THEN c ELSE
    LET f == fix_non_empty_element(c.e, c.out)
    IN  R(after_text(f.e), Append(f.out, Chunk("text", "", 0)), "Ok")

emit_cdata(e, out) ==
    LET f == fix_non_empty_element(e, out) IN
    IF e.config.cdata_to_characters
    THEN emit_characters(f.e, f.out)
    ELSE R(after_text(f.e), Append(f.out, Chunk("cdata", "", 0)), "Ok")

emit_comment(e, out) ==
    LET f == fix_non_empty_element(e, out)
        b == before_markup(f.e, f.out)
    IN  R(after_markup(b.e), Append(b.out, Chunk("comment", "", 0)), "Ok")

(***************************************************************************)
(* The text the writer puts out for a CDATA section and for a comment.     *)
(* The chunks cdata and comment above stand for these characters.          *)
(***************************************************************************)
\* does pat occur in s at index i
MatchAt(s, pat, i) ==
    i + Len(pat) - 1 <= Len(s) /\ SubSeq(s, i, i + Len(pat) - 1) = pat

\* str::find: the index of the leftmost occurrence of pat in s, 0 for None
find(s, pat) ==
    IF \E i \in 1..Len(s) : MatchAt(s, pat, i)
    THEN CHOOSE i \in 1..Len(s) :
             MatchAt(s, pat, i) /\ \A j \in 1..(i - 1) : ~MatchAt(s, pat, j)
    ELSE 0

RECURSIVE split_inclusive(_, _)
\* str::split_inclusive: the pieces of s, each ending with the occurrence
\* of pat that ends it (the last one may have none)
split_inclusive(s, pat) ==
    IF s = <<>> THEN <<>>
    ELSE IF find(s, pat) = 0 THEN <<s>>
    ELSE <<SubSeq(s, 1, find(s, pat) + Len(pat) - 1)>>
         \o split_inclusive(SubSeq(s, find(s, pat) + Len(pat), Len(s)), pat)

\* str::strip_suffix(..).is_some()
has_suffix(chunk, pat) ==
    Len(chunk) >= Len(pat) /\ SubSeq(chunk, Len(chunk) - Len(pat) + 1, Len(chunk)) = pat

\* chunk_safe.unwrap_or(chunk)
chunk_safe(chunk, pat) ==
    IF has_suffix(chunk, pat) THEN SubSeq(chunk, 1, Len(chunk) - Len(pat)) ELSE chunk

RECURSIVE write_chunks(_, _, _)
\* the loops emitter.rs:405-413 and 459-467: each piece is written without
\* its terminator pat, which is replaced by escaped
write_chunks(chunks, pat, escaped) ==
    IF chunks = <<>> THEN <<>>
    ELSE chunk_safe(Head(chunks), pat)
         \o (IF has_suffix(Head(chunks), pat) THEN escaped ELSE <<>>)
         \o write_chunks(Tail(chunks), pat, escaped)

CDataOpen == <<"<", "!", "[", "C", "D", "A", "T", "A", "[">>

CDataClose == <<"]", "]", ">">>

\* what a write of the emitter returns with the characters it wrote
WR(res, bytes) == [res |-> res, bytes |-> bytes]

\* a CDATA writer that copies the content as it is
cdata_write_raw(content) == WR("Ok", CDataOpen \o content \o CDataClose)

\* emit_cdata, emitter.rs:403-415 (cdata_to_characters unset)
cdata_write(content) ==
    WR("Ok",
       CDataOpen
       \o write_chunks(split_inclusive(content, CDataClose), CDataClose,
                       <<"]", "]", "]", "]", ">">> \o CDataOpen \o <<">">>)
       \o CDataClose)

\* char::is_whitespace
is_whitespace(c) == c \in {" ", "\t", "\n", "\r"}

starts_with_whitespace(content) == content # <<>> /\ is_whitespace(Head(content))

ends_with_whitespace(content) == content # <<>> /\ is_whitespace(Last(content))

\* a comment writer that refuses content holding --
comment_write_checked(autopad_comments, content) ==
    IF find(content, <<"-", "-">>) # 0 THEN WR("InvalidComment", <<>>)
    ELSE WR("Ok", <<"<", "!", "-", "-">> \o content \o <<"-", "-", ">">>)

\* emit_comment, emitter.rs:451-476: the closure write
comment_write(autopad_comments, content) ==
    WR("Ok",
       <<"<", "!", "-", "-">>
       \o (IF autopad_comments /\ ~starts_with_whitespace(content) THEN <<" ">> ELSE <<>>)
       \o write_chunks(split_inclusive(content, <<"-", "-">>), <<"-", "-">>, <<"-", " ">>)
       \o (IF autopad_comments /\ ~ends_with_whitespace(content) THEN <<" ">> ELSE <<>>)
       \o <<"-", "-", ">">>)

(***************************************************************************)
(* The namespace declarations of a start tag.  A frame of the namespace    *)
(* stack is a function from the prefixes it binds to their URIs; peek() is *)
(* the last frame, and a frame is iterated in the order of its prefixes.   *)
(***************************************************************************)
NS_NO_PREFIX == ""

NS_XML_PREFIX == "xml"

NS_XMLNS_PREFIX == "xmlns"

NS_EMPTY_URI == ""

\* the prefixes of the model in the order a frame is iterated in
PrefixOrder == <<NS_NO_PREFIX, "a", NS_XML_PREFIX, NS_XMLNS_PREFIX>>

\* the attribute xmlns="uri" (prefix = NS_NO_PREFIX) or xmlns:prefix="uri"
Xmlns(prefix, uri) == [prefix |-> prefix, uri |-> uri]

\* NamespaceStack::get: the binding of prefix nearest to the top of frames
RECURSIVE nst_get(_, _)
nst_get(frames, prefix) ==
    IF frames = <<>> THEN "None"
    ELSE IF prefix \in DOMAIN Last(frames) THEN Last(frames)[prefix]
    ELSE nst_get(Front(frames), prefix)

RECURSIVE declarations_deduplicated(_, _)
\* the declarations of a start tag that leaves out a binding already in
\* scope below the top frame
declarations_deduplicated(frames, i) ==
    IF i > Len(PrefixOrder) THEN <<>>
    ELSE LET prefix == PrefixOrder[i]
             rest == declarations_deduplicated(frames, i + 1)
         IN  IF prefix \notin DOMAIN Last(frames) THEN rest
             ELSE IF prefix \in {NS_XMLNS_PREFIX, NS_XML_PREFIX} THEN rest
             ELSE IF nst_get(Front(frames), prefix) = Last(frames)[prefix] THEN rest
             ELSE IF prefix = NS_NO_PREFIX
             THEN IF Last(frames)[prefix] # NS_EMPTY_URI
                  THEN <<Xmlns(prefix, Last(frames)[prefix])>> \o rest ELSE rest
             ELSE <<Xmlns(prefix, Last(frames)[prefix])>> \o rest

RECURSIVE emit_current_namespace_attributes(_, _)
\* the loop over self.nst.peek(), from the i-th prefix on
emit_current_namespace_attributes(frames, i) ==
    IF i > Len(PrefixOrder) THEN <<>>
    ELSE LET prefix == PrefixOrder[i]
             rest == emit_current_namespace_attributes(frames, i + 1)
         IN  IF prefix \notin DOMAIN Last(frames) THEN rest
             ELSE IF prefix \in {NS_XMLNS_PREFIX, NS_XML_PREFIX} THEN rest
             ELSE IF prefix = NS_NO_PREFIX
             THEN IF Last(frames)[prefix] # NS_EMPTY_URI
                  THEN <<Xmlns(prefix, Last(frames)[prefix])>> \o rest ELSE rest
             ELSE <<Xmlns(prefix, Last(frames)[prefix])>> \o rest

(***************************************************************************)
(* The lexer (src/reader/lexer.rs).  Characters are one-character strings, *)
(* strings are sequences of characters.  The character reader that decodes *)
(* bytes is not part of the lexer: the source `b` of next_token is the     *)
(* sequence of decoded characters that are available and not yet read.     *)
(***************************************************************************)
Tok(t, c) == [t |-> t, c |-> c]

\* Option<Token>::None
NoTok == Tok("None", "")

Character(c) == Tok("Character", c)

Eof == Tok("Eof", "")

\* lexer::State, as the variant's name and its substate ("" when it has none)
St(name, sub) == [name |-> name, sub |-> sub]

Normal == St("Normal", "")

\* reader::Error of kind Syntax: the SyntaxError variant, its arguments
\* (UnexpectedTokenBefore(chunk, c) only) and the position it is reported at
Err(kind, chunk, c, pos) == [kind |-> kind, chunk |-> chunk, c |-> c, pos |-> pos]

TextPosition(row, column) == [row |-> row, column |-> column]

NoErr == Err("", <<>>, "", TextPosition(0, 0))

\* common::is_whitespace_char and common::is_name_char on the characters of
\* the model's documents
is_whitespace_char(c) == c \in {" ", "\n"}

is_name_char(c) ==
    c \in {"a", "b", "e", "f", "x", "y", ":", "-", ".",
           "A", "C", "D", "E", "N", "O", "P", "T", "Y"}

new_line(p) == TextPosition(p.row + 1, 0)

advance(p) == TextPosition(p.row, p.column + 1)

\* Lexer::new
LexerNew(max_depth, max_length) ==
    [ st |-> Normal,
      normal_state |-> Normal,
      char_queue |-> <<>>,
      pos |-> TextPosition(0, 0),
      head_pos |-> TextPosition(0, 0),
      inside_token |-> FALSE,
      eof_handled |-> FALSE,
      reparse_depth |-> 0,
      skip_errors |-> FALSE,
      max_entity_expansion_depth |-> max_depth,
      max_entity_expansion_length |-> max_length,
      \* instrumentation, read by no operation: the number of characters
      \* taken from char_queue so far
      queue_reads |-> 0 ]

\* What dispatch_char and the state functions return: the lexer after the
\* call and Ok(Some(token)), Ok(None) (tok = NoTok) or Err(err).
D(l, tok, err) == [l |-> l, tok |-> tok, err |-> err]

reset_eof_handled(l) == [l EXCEPT !.eof_handled = FALSE]

move_to(l, st) == D([l EXCEPT !.st = st], NoTok, NoErr)

move_to_with(l, st, token) == D([l EXCEPT !.st = st], token, NoErr)

keep_state(l, token) == D(l, token, NoErr)

move_to_and_reset_normal(l, st, token) ==
    D([l EXCEPT !.normal_state = st, !.st = st], token, NoErr)

\* a backtracking that pushes the characters back twice
move_to_with_unread_twice(l, st, cs, token) ==
    D([l EXCEPT !.char_queue = cs \o cs \o @, !.st = st], token, NoErr)

move_to_with_unread(l, st, cs, token) ==
    D([l EXCEPT !.char_queue = cs \o @, !.st = st], token, NoErr)

handle_error(l, chunk, c) ==
    IF l.skip_errors
    THEN D([l EXCEPT !.char_queue = @ \o Tail(chunk) \o <<c>>, !.st = Normal],
           Character(Head(chunk)), NoErr)
    ELSE D(l, NoTok, Err("UnexpectedTokenBefore", chunk, c, l.pos))

normal(l, c) ==
    CASE c = "<"  -> move_to(l, St("TagStarted", ""))
      [] c = ">"  -> keep_state(l, Tok("TagEnd", ""))
      [] c = "/"  -> move_to(l, St("EmptyTagClosing", ""))
      [] c = "="  -> keep_state(l, Tok("EqualsSign", ""))
      [] c = "\"" -> keep_state(l, Tok("DoubleQuote", ""))
      [] c = "'"  -> keep_state(l, Tok("SingleQuote", ""))
      [] c = "]"  -> move_to(l, St("InvalidCDataClosing", "First"))
      [] c = "&"  -> keep_state(l, Tok("ReferenceStart", ""))
      [] c = ";"  -> keep_state(l, Tok("ReferenceEnd", ""))
      [] OTHER    -> keep_state(l, Character(c))

inside_cdata(l, c) ==
    IF c = "]" THEN move_to(l, St("CDataClosing", "First"))
    ELSE keep_state(l, Character(c))

inside_processing_instruction(l, c) ==
    CASE c = "?"  -> move_to(l, St("ProcessingInstructionClosing", ""))
      [] c = "<"  -> keep_state(l, Tok("OpeningTagStart", ""))
      [] c = ">"  -> keep_state(l, Tok("TagEnd", ""))
      [] c = "/"  -> keep_state(l, Tok("ClosingTagStart", ""))
      [] c = "="  -> keep_state(l, Tok("EqualsSign", ""))
      [] c = "\"" -> keep_state(l, Tok("DoubleQuote", ""))
      [] c = "'"  -> keep_state(l, Tok("SingleQuote", ""))
      [] c = "&"  -> keep_state(l, Tok("ReferenceStart", ""))
      [] c = ";"  -> keep_state(l, Tok("ReferenceEnd", ""))
      [] OTHER    -> keep_state(l, Character(c))

inside_comment_state(l, c) ==
    IF c = "-" THEN move_to(l, St("CommentClosing", "First"))
    ELSE keep_state(l, Character(c))

tag_opened(l, c) ==
    CASE c = "?" -> move_to_with(l, St("InsideProcessingInstruction", ""),
                                 Tok("ProcessingInstructionStart", ""))
      [] c = "/" -> move_to_with(l, l.normal_state, Tok("ClosingTagStart", ""))
      [] c = "!" -> move_to(l, St("CommentOrCDataOrDoctypeStarted", ""))
      [] c \notin {"?", "/", "!"} /\ is_whitespace_char(c) ->
            move_to_with_unread(l, l.normal_state, <<c>>, Tok("OpeningTagStart", ""))
      [] c \notin {"?", "/", "!"} /\ ~is_whitespace_char(c) /\ is_name_char(c) ->
            move_to_with_unread(l, l.normal_state, <<c>>, Tok("OpeningTagStart", ""))
      [] OTHER   -> handle_error(l, <<"<">>, c)

comment_or_cdata_or_doctype_started(l, c) ==
    CASE c = "-" -> move_to(l, St("CommentStarted", ""))
      [] c = "[" -> move_to(l, St("CDataStarted", "E"))
      [] c = "D" -> move_to(l, St("DoctypeStarted", "D"))
      [] c \in {"E", "A", "N"} /\ l.normal_state.name = "InsideDoctype" ->
            move_to_with_unread(l, St("InsideMarkupDeclaration", ""), <<c>>,
                                Tok("MarkupDeclarationStart", ""))
      [] OTHER   -> handle_error(l, <<"<", "!">>, c)

comment_started(l, c) ==
    IF c = "-" THEN move_to_with(l, St("InsideComment", ""), Tok("CommentStart", ""))
    ELSE handle_error(l, <<"<", "!", "-">>, c)

\* dispatch_on_enum_state!: the substates in order, the character each one
\* expects, and the text consumed when the substate is entered
CDataSubstates == <<"E", "C", "CD", "CDA", "CDAT", "CDATA">>

CDataExpected == <<"C", "D", "A", "T", "A", "[">>

DoctypeSubstates == <<"D", "DO", "DOC", "DOCT", "DOCTY", "DOCTYP">>

DoctypeExpected == <<"O", "C", "T", "Y", "P", "E">>

IndexOf(seq, x) == CHOOSE i \in 1..Len(seq) : seq[i] = x

cdata_started(l, c, s) ==
    LET i == IndexOf(CDataSubstates, s)
        chunk == <<"<", "!", "[">> \o SubSeq(CDataExpected, 1, i - 1)
    IN  IF c # CDataExpected[i] THEN handle_error(l, chunk, c)
        ELSE IF i < Len(CDataSubstates)
        THEN move_to(l, St("CDataStarted", CDataSubstates[i + 1]))
        ELSE move_to_with(l, St("InsideCdata", ""), Tok("CDataStart", ""))

markup_declaration(l, c) ==
    CASE c = "<"  -> handle_error(l, <<"<", "!">>, c)
      [] c = ">"  -> move_to_with(l, l.normal_state, Tok("TagEnd", ""))
      [] c = "&"  -> keep_state(l, Tok("ReferenceStart", ""))
      [] c = ";"  -> keep_state(l, Tok("ReferenceEnd", ""))
      [] c = "\"" -> move_to_with(l, St("InsideMarkupDeclarationQuotedString", "Double"),
                                  Tok("DoubleQuote", ""))
      [] c = "'"  -> move_to_with(l, St("InsideMarkupDeclarationQuotedString", "Single"),
                                  Tok("SingleQuote", ""))
      [] OTHER    -> keep_state(l, Character(c))

\* a quoted string of a markup declaration in which > ends the declaration
markup_declaration_string_unquoted(l, c, q) ==
    CASE c = ">" -> move_to_with(l, l.normal_state, Tok("TagEnd", ""))
      [] c = "\"" /\ q = "Double" ->
            move_to_with(l, St("InsideMarkupDeclaration", ""), Tok("DoubleQuote", ""))
      [] c = "'" /\ q = "Single" ->
            move_to_with(l, St("InsideMarkupDeclaration", ""), Tok("SingleQuote", ""))
      [] OTHER -> keep_state(l, Character(c))

markup_declaration_string(l, c, q) ==
    CASE c = "\"" /\ q = "Double" ->
            move_to_with(l, St("InsideMarkupDeclaration", ""), Tok("DoubleQuote", ""))
      [] c = "'" /\ q = "Single" ->
            move_to_with(l, St("InsideMarkupDeclaration", ""), Tok("SingleQuote", ""))
      [] OTHER -> keep_state(l, Character(c))

doctype_started(l, c, s) ==
    LET i == IndexOf(DoctypeSubstates, s)
        chunk == <<"<", "!", "D">> \o SubSeq(DoctypeExpected, 1, i - 1)
    IN  IF c # DoctypeExpected[i] THEN handle_error(l, chunk, c)
        ELSE IF i < Len(DoctypeSubstates)
        THEN move_to(l, St("DoctypeStarted", DoctypeSubstates[i + 1]))
        ELSE move_to_and_reset_normal(l, St("InsideDoctype", ""), Tok("DoctypeStart", ""))

inside_doctype(l, c) ==
    CASE c = ">"  -> move_to_and_reset_normal(l, Normal, Tok("TagEnd", ""))
      [] c = "<"  -> move_to(l, St("TagStarted", ""))
      [] c = "&"  -> keep_state(l, Tok("ReferenceStart", ""))
      [] c = ";"  -> keep_state(l, Tok("ReferenceEnd", ""))
      [] c = "\"" -> keep_state(l, Tok("DoubleQuote", ""))
      [] c = "'"  -> keep_state(l, Tok("SingleQuote", ""))
      [] OTHER    -> keep_state(l, Character(c))

processing_instruction_closing(l, c) ==
    IF c = ">"
    THEN move_to_with(l, l.normal_state, Tok("ProcessingInstructionEnd", ""))
    ELSE move_to_with_unread(l, St("InsideProcessingInstruction", ""), <<c>>,
                             Character("?"))

empty_element_closing(l, c) ==
    IF c = ">"
    THEN move_to_with(l, l.normal_state, Tok("EmptyTagEnd", ""))
    ELSE move_to_with_unread(l, l.normal_state, <<c>>, Character("/"))

\* a comment in which -- is content like any other
comment_closing_lenient(l, c, s) ==
    IF s = "First"
    THEN IF c = "-" THEN move_to(l, St("CommentClosing", "Second"))
         ELSE move_to_with_unread(l, St("InsideComment", ""), <<c>>, Character("-"))
    ELSE IF c = ">" THEN move_to_with(l, l.normal_state, Tok("CommentEnd", ""))
         ELSE move_to_with_unread(l, St("InsideComment", ""), <<"-", c>>, Character("-"))

comment_closing(l, c, s) ==
    IF s = "First"
    THEN IF c = "-" THEN move_to(l, St("CommentClosing", "Second"))
         ELSE move_to_with_unread(l, St("InsideComment", ""), <<c>>, Character("-"))
    ELSE IF c = ">" THEN move_to_with(l, l.normal_state, Tok("CommentEnd", ""))
         ELSE handle_error(l, <<"-", "-">>, c)

\* a CDATA section that pushes back only the character that did not
\* complete ]]>
cdata_closing_no_backtrack(l, c, s) ==
    IF s = "First"
    THEN IF c = "]" THEN move_to(l, St("CDataClosing", "Second"))
         ELSE move_to_with_unread(l, St("InsideCdata", ""), <<c>>, Character("]"))
    ELSE IF c = ">" THEN move_to_with(l, Normal, Tok("CDataEnd", ""))
         ELSE move_to_with_unread(l, St("InsideCdata", ""), <<c>>, Character("]"))

cdata_closing(l, c, s) ==
    IF s = "First"
    THEN IF c = "]" THEN move_to(l, St("CDataClosing", "Second"))
         ELSE move_to_with_unread(l, St("InsideCdata", ""), <<c>>, Character("]"))
    ELSE IF c = ">" THEN move_to_with(l, Normal, Tok("CDataEnd", ""))
         ELSE move_to_with_unread(l, St("InsideCdata", ""), <<"]", c>>, Character("]"))

invalid_cdata_closing(l, c, s) ==
    IF s = "First"
    THEN IF c = "]" THEN move_to(l, St("InvalidCDataClosing", "Second"))
         ELSE move_to_with_unread(l, Normal, <<c>>, Character("]"))
    ELSE IF c = ">" THEN move_to_with(l, l.normal_state, Tok("CDataEnd", ""))
         ELSE move_to_with_unread(l, Normal, <<"]", c>>, Character("]"))

dispatch_char(l, c) ==
    LET n == l.st.name
        s == l.st.sub
    IN  CASE n = "Normal"                         -> normal(l, c)
          [] n = "TagStarted"                     -> tag_opened(l, c)
          [] n = "EmptyTagClosing"                -> empty_element_closing(l, c)
          [] n = "CommentOrCDataOrDoctypeStarted" -> comment_or_cdata_or_doctype_started(l, c)
          [] n = "InsideCdata"                    -> inside_cdata(l, c)
          [] n = "CDataStarted"                   -> cdata_started(l, c, s)
          [] n = "InsideComment"                  -> inside_comment_state(l, c)
          [] n = "CommentStarted"                 -> comment_started(l, c)
          [] n = "InsideProcessingInstruction"    -> inside_processing_instruction(l, c)
          [] n = "ProcessingInstructionClosing"   -> processing_instruction_closing(l, c)
          [] n = "CommentClosing"                 -> comment_closing(l, c, s)
          [] n = "CDataClosing"                   -> cdata_closing(l, c, s)
          [] n = "InsideDoctype"                  -> inside_doctype(l, c)
          [] n = "DoctypeStarted"                 -> doctype_started(l, c, s)
          [] n = "InvalidCDataClosing"            -> invalid_cdata_closing(l, c, s)
          [] n = "InsideMarkupDeclaration"        -> markup_declaration(l, c)
          [] n = "InsideMarkupDeclarationQuotedString" -> markup_declaration_string(l, c, s)

\* What next_token returns: the lexer and the source after the call and the
\* Result<Token>.
NT(l, b, tok, err) == [l |-> l, b |-> b, tok |-> tok, err |-> err]

\* an end of stream that reports Eof whatever the state
end_of_stream_lenient(l0, b) ==
    NT([l0 EXCEPT !.eof_handled = TRUE, !.pos = l0.head_pos], b, Eof, NoErr)

end_of_stream(l0, b) ==
    LET l == [l0 EXCEPT !.eof_handled = TRUE, !.pos = l0.head_pos]
        n == l.st.name
        s == l.st.sub
    IN  CASE n \in {"InsideCdata", "CDataClosing"} ->
                NT(l, b, NoTok, Err("UnclosedCdata", <<>>, "", l.pos))
          [] \/ n \in {"TagStarted", "CommentOrCDataOrDoctypeStarted", "CommentStarted",
                       "CDataStarted", "DoctypeStarted", "InsideComment",
                       "InsideMarkupDeclaration", "InsideProcessingInstruction",
                       "ProcessingInstructionClosing", "InsideDoctype",
                       "InsideMarkupDeclarationQuotedString"}
             \/ (n = "CommentClosing" /\ s = "Second") ->
                NT(l, b, NoTok, Err("UnexpectedEof", <<>>, "", l.pos))
          [] n = "EmptyTagClosing" -> NT(l, b, Character("/"), NoErr)
          [] n = "CommentClosing" /\ s = "First" -> NT(l, b, Character("-"), NoErr)
          [] n = "InvalidCDataClosing" /\ s = "First" -> NT(l, b, Character("]"), NoErr)
          [] n = "InvalidCDataClosing" /\ s = "Second" ->
                LET d == move_to_with_unread([l EXCEPT !.eof_handled = FALSE], Normal,
                                             <<"]">>, Character("]"))
                IN  NT(d.l, b, d.tok, NoErr)
          [] n = "Normal" -> NT(l, b, Eof, NoErr)

RECURSIVE read_source(_, _)

\* next_token, lexer.rs:318-321: d is what dispatch_char returned for a
\* character of the source
source_dispatched(d, b) ==
    IF d.err # NoErr THEN NT(d.l, b, NoTok, d.err)
    ELSE IF d.tok # NoTok
    THEN NT([d.l EXCEPT !.inside_token = FALSE], b, d.tok, NoErr)
    ELSE read_source(d.l, b)

\* next_token, lexer.rs:311-324: the loop over the characters of the source
read_source(l, b) ==
    IF b = <<>> THEN end_of_stream(l, b)
    ELSE source_dispatched(
             dispatch_char([l EXCEPT !.head_pos = IF Head(b) = "\n" THEN new_line(@)
                                                  ELSE advance(@)],
                           Head(b)),
             Tail(b))

RECURSIVE read_queue(_, _)

\* next_token, lexer.rs:304-307: d is what dispatch_char returned for a
\* saved character
queue_dispatched(d, b) ==
    IF d.err # NoErr THEN NT(d.l, b, NoTok, d.err)
    ELSE IF d.tok # NoTok
    THEN NT([d.l EXCEPT !.inside_token = FALSE], b, d.tok, NoErr)
    ELSE read_queue(d.l, b)

\* a loop over the saved characters that does not reset reparse_depth
read_queue_keeps_depth(l, b) ==
    IF l.char_queue = <<>> THEN read_source(l, b)
    ELSE queue_dispatched(
             dispatch_char([l EXCEPT !.char_queue = Tail(@), !.queue_reads = @ + 1],
                           Head(l.char_queue)),
             b)

\* next_token, lexer.rs:303-310: the loop over the saved characters
read_queue(l, b) ==
    IF l.char_queue = <<>> THEN read_source([l EXCEPT !.reparse_depth = 0], b)
    ELSE queue_dispatched(
             dispatch_char([l EXCEPT !.char_queue = Tail(@), !.queue_reads = @ + 1],
                           Head(l.char_queue)),
             b)

\* a next_token that reads on after the end of the stream was reported
next_token_rereads(l, b) ==
    read_queue(IF ~l.inside_token
               THEN [l EXCEPT !.pos = l.head_pos, !.inside_token = TRUE]
               ELSE l, b)

next_token(l, b) ==
    IF l.eof_handled THEN NT(l, b, Eof, NoErr)
    ELSE read_queue(IF ~l.inside_token
                    THEN [l EXCEPT !.pos = l.head_pos, !.inside_token = TRUE]
                    ELSE l, b)

\* What reparse returns: the lexer after the call and the Result<()>.
RP(l, err) == [l |-> l, err |-> err]

\* a reparse whose depth test is off by one
reparse_off_by_one(l, markup) ==
    IF markup = <<>> THEN RP(l, NoErr)
    ELSE LET l1 == [l EXCEPT !.reparse_depth = (@ + 1) % 256]
         IN  IF \/ l1.reparse_depth >= l1.max_entity_expansion_depth
                \/ Len(l1.char_queue) > l1.max_entity_expansion_length
             THEN RP(l1, Err("EntityTooBig", <<>>, "", l1.pos))
             ELSE RP([l1 EXCEPT !.eof_handled = FALSE, !.char_queue = markup \o @], NoErr)

\* a reparse that puts the markup behind the characters already saved
reparse_appends(l, markup) ==
    IF markup = <<>> THEN RP(l, NoErr)
    ELSE LET l1 == [l EXCEPT !.reparse_depth = (@ + 1) % 256]
         IN  IF \/ l1.reparse_depth > l1.max_entity_expansion_depth
                \/ Len(l1.char_queue) > l1.max_entity_expansion_length
             THEN RP(l1, Err("EntityTooBig", <<>>, "", l1.pos))
             ELSE RP([l1 EXCEPT !.eof_handled = FALSE, !.char_queue = @ \o markup], NoErr)

\* a reparse that does not look at the length of the queue
reparse_any_length(l, markup) ==
    IF markup = <<>> THEN RP(l, NoErr)
    ELSE LET l1 == [l EXCEPT !.reparse_depth = (@ + 1) % 256]
         IN  IF l1.reparse_depth > l1.max_entity_expansion_depth
             THEN RP(l1, Err("EntityTooBig", <<>>, "", l1.pos))
             ELSE RP([l1 EXCEPT !.eof_handled = FALSE, !.char_queue = markup \o @], NoErr)

\* reparse_depth is a u8; the release build's += wraps
reparse(l, markup) ==
    IF markup = <<>> THEN RP(l, NoErr)
    ELSE LET l1 == [l EXCEPT !.reparse_depth = (@ + 1) % 256]
         IN  IF \/ l1.reparse_depth > l1.max_entity_expansion_depth
                \/ Len(l1.char_queue) > l1.max_entity_expansion_length
             THEN RP(l1, Err("EntityTooBig", <<>>, "", l1.pos))
             ELSE RP([l1 EXCEPT !.eof_handled = FALSE, !.char_queue = markup \o @], NoErr)

(***************************************************************************)
(* The pull parser (reader/parser.rs), as the specification describes it:  *)
(* a state machine over the lexer's tokens that assembles events, tracks   *)
(* the element-name stack, buffers text and expands entities through       *)
(* Lexer::reparse.  Names and text are sequences of characters.            *)
(***************************************************************************)
\* reader::Result<XmlEvent>: an event (k its variant, n its name or text)
\* or Err(e) (k = "Error")
Ev(k, n) == [k |-> k, n |-> n, e |-> NoErr]

ErrEv(e) == [k |-> "Error", n |-> <<>>, e |-> e]

\* Option::None where an event or result is optional
NoEv == Ev("None", <<>>)

Terminal(ev) == ev.k \in {"EndDocument", "Error"}

SyntaxErr(kind, l) == ErrEv(Err(kind, <<>>, "", l.pos))

\* ParserConfig: the options of this model's readers
ParserConfigOf(streaming, max_depth, max_length) ==
    [ ignore_end_of_stream |-> streaming,
      ignore_comments |-> TRUE,
      max_entity_expansion_depth |-> max_depth,
      max_entity_expansion_length |-> max_length ]

\* PullParser::new.  entities maps the names of the user-defined entities
\* to their replacement text; reparse_ok and reparse_err count the calls of
\* Lexer::reparse by outcome and reparse_base is the lexer's queue_reads at
\* the first of them (instrumentation, read by no operation).
PullParserNew(config, entities) ==
    [ config |-> config,
      lexer |-> LexerNew(config.max_entity_expansion_depth,
                         config.max_entity_expansion_length),
      st |-> "Prolog",
      buf |-> <<>>,
      name_buf |-> <<>>,
      attr_name |-> <<>>,
      ref_data |-> <<>>,
      est |-> <<>>,
      encountered |-> "None",
      final_result |-> NoEv,
      next_event |-> NoEv,
      entities |-> entities,
      reparse_ok |-> 0,
      reparse_err |-> 0,
      reparse_base |-> 0 ]

is_ignoring_end_of_stream(p) == p.config.ignore_end_of_stream

\* What dispatch_token returns: the parser after the call and
\* Option<Result<XmlEvent>> (ev = NoEv for None: read on).
DT(p, ev) == [p |-> p, ev |-> ev]

\* Token::push_to_string (lexer.rs:115-125) through as_static_str
as_static_str(t) ==
    CASE t.t = "OpeningTagStart"            -> <<"<">>
      [] t.t = "ProcessingInstructionStart" -> <<"<", "?">>
      [] t.t = "DoctypeStart"               -> <<"<", "!", "D", "O", "C", "T", "Y", "P", "E">>
      [] t.t = "ClosingTagStart"            -> <<"<", "/">>
      [] t.t = "CommentStart"               -> <<"<", "!", "-", "-">>
      [] t.t = "CDataStart"                 -> <<"<", "!", "[", "C", "D", "A", "T", "A", "[">>
      [] t.t = "TagEnd"                     -> <<">">>
      [] t.t = "EmptyTagEnd"                -> <<"/", ">">>
      [] t.t = "ProcessingInstructionEnd"   -> <<"?", ">">>
      [] t.t = "CommentEnd"                 -> <<"-", "-", ">">>
      [] t.t = "CDataEnd"                   -> <<"]", "]", ">">>
      [] t.t = "ReferenceStart"             -> <<"&">>
      [] t.t = "ReferenceEnd"               -> <<";">>
      [] t.t = "EqualsSign"                 -> <<"=">>
      [] t.t = "SingleQuote"                -> <<"'">>
      [] t.t = "DoubleQuote"                -> <<"\"">>
      [] OTHER                              -> <<>>

push_to_string(t, string) ==
    IF t.t = "Character" THEN Append(string, t.c) ELSE string \o as_static_str(t)

\* The text buffered so far is emitted as Characters before the markup
\* that ends it is entered.
text_then(p, st) ==
    IF p.buf = <<>> THEN DT([p EXCEPT !.st = st], NoEv)
    ELSE DT([p EXCEPT !.st = st, !.buf = <<>>], Ev("Characters", p.buf))

\* Before the root element: the first start tag yields StartDocument.
prolog(p, t) ==
    CASE t.t = "OpeningTagStart" ->
            DT([p EXCEPT !.st = "InsideOpeningTag", !.encountered = "Element"],
               Ev("StartDocument", <<>>))
      [] t.t = "Character" /\ is_whitespace_char(t.c) -> DT(p, NoEv)
      [] OTHER -> DT(p, SyntaxErr("UnexpectedTokenOutsideRoot", p.lexer))

outside_tag(p, t) ==
    IF p.est = <<>>
    THEN \* after the root element has ended
         IF t.t = "Character" /\ is_whitespace_char(t.c) THEN DT(p, NoEv)
         ELSE DT(p, SyntaxErr("UnexpectedTokenOutsideRoot", p.lexer))
    ELSE CASE t.t = "OpeningTagStart" -> text_then(p, "InsideOpeningTag")
           [] t.t = "ClosingTagStart" -> text_then(p, "InsideClosingTag")
           [] t.t = "ReferenceStart"  -> DT([p EXCEPT !.st = "InsideReference"], NoEv)
           [] t.t = "CDataEnd"        -> DT(p, SyntaxErr("UnexpectedToken", p.lexer))
           [] t.t = "CommentStart"    ->
                 \* a comment that is ignored does not end the text around it
                 IF p.config.ignore_comments
                 THEN DT([p EXCEPT !.st = "InsideComment"], NoEv)
                 ELSE text_then(p, "InsideComment")
           [] OTHER -> DT([p EXCEPT !.buf = push_to_string(t, @)], NoEv)

\* StartElement: the name is pushed on the element-name stack; for /> the
\* matching EndElement is queued to follow immediately.
emit_start_element_event(p, empty) ==
    LET name == p.name_buf
        p1 == [p EXCEPT !.st = "OutsideTag", !.name_buf = <<>>,
                        !.est = Append(@, name)]
    IN  DT(IF empty THEN [p1 EXCEPT !.next_event = Ev("EndElement", name)] ELSE p1,
           Ev("StartElement", name))

\* SyntaxError::UnexpectedQualifiedName(t), "Unexpected token inside
\* qualified name: {t}": chunk is the token as the message prints it
UnexpectedQualifiedName(t, l) ==
    ErrEv(Err("UnexpectedQualifiedName", push_to_string(t, <<>>), "", l.pos))

\* the token t is a : for a name that holds one already
second_colon(name, t) ==
    t.t = "Character" /\ t.c = ":" /\ (\E i \in DOMAIN name : name[i] = ":")

\* the token t is one more character of the qualified name
name_continues(name, t) ==
    t.t = "Character" /\ is_name_char(t.c) /\ ~second_colon(name, t)

\* a qualified name has ended: a name that ends with its : has no local
\* part and is refused, otherwise the parser goes on as d
name_read(p, name, d) ==
    IF name # <<>> /\ Last(name) = ":"
    THEN DT(p, SyntaxErr("InvalidQualifiedName", p.lexer))
    ELSE d

\* a start tag that reads its name wherever a : stands
inside_opening_tag_any_colons(p, t) ==
    CASE t.t = "Character" /\ is_name_char(t.c) ->
            DT([p EXCEPT !.name_buf = Append(@, t.c)], NoEv)
      [] t.t = "Character" /\ is_whitespace_char(t.c) /\ p.name_buf # <<>> ->
            name_read(p, p.name_buf, DT([p EXCEPT !.st = "InsideTag"], NoEv))
      [] t.t = "TagEnd" /\ p.name_buf # <<>> ->
            name_read(p, p.name_buf, emit_start_element_event(p, FALSE))
      [] t.t = "EmptyTagEnd" /\ p.name_buf # <<>> ->
            name_read(p, p.name_buf, emit_start_element_event(p, TRUE))
      [] OTHER -> DT(p, SyntaxErr("UnexpectedTokenInOpeningTag", p.lexer))

\* Element start: the element name, up to whitespace, > or />
inside_opening_tag(p, t) ==
    CASE second_colon(p.name_buf, t) -> DT(p, UnexpectedQualifiedName(t, p.lexer))
      [] name_continues(p.name_buf, t) ->
            DT([p EXCEPT !.name_buf = Append(@, t.c)], NoEv)
      [] t.t = "Character" /\ is_whitespace_char(t.c) /\ p.name_buf # <<>> ->
            name_read(p, p.name_buf, DT([p EXCEPT !.st = "InsideTag"], NoEv))
      [] t.t = "TagEnd" /\ p.name_buf # <<>> ->
            name_read(p, p.name_buf, emit_start_element_event(p, FALSE))
      [] t.t = "EmptyTagEnd" /\ p.name_buf # <<>> ->
            name_read(p, p.name_buf, emit_start_element_event(p, TRUE))
      [] OTHER -> DT(p, SyntaxErr("UnexpectedTokenInOpeningTag", p.lexer))

\* after the element name: attributes until > or />
inside_tag(p, t) ==
    CASE t.t = "Character" /\ is_whitespace_char(t.c) -> DT(p, NoEv)
      [] t.t = "Character" /\ is_name_char(t.c) ->
            DT([p EXCEPT !.st = "InsideAttributeName", !.attr_name = <<t.c>>], NoEv)
      [] t.t = "TagEnd"      -> emit_start_element_event(p, FALSE)
      [] t.t = "EmptyTagEnd" -> emit_start_element_event(p, TRUE)
      [] OTHER -> DT(p, SyntaxErr("UnexpectedTokenInOpeningTag", p.lexer))

\* an attribute: name WS* = WS* quoted value.  The name of the attribute:
inside_attribute_name(p, t) ==
    CASE second_colon(p.attr_name, t) -> DT(p, UnexpectedQualifiedName(t, p.lexer))
      [] name_continues(p.attr_name, t) ->
            DT([p EXCEPT !.attr_name = Append(@, t.c)], NoEv)
      [] t.t = "Character" /\ is_whitespace_char(t.c) ->
            name_read(p, p.attr_name, DT([p EXCEPT !.st = "AfterAttributeName"], NoEv))
      [] t.t = "EqualsSign" ->
            name_read(p, p.attr_name, DT([p EXCEPT !.st = "BeforeAttributeValue"], NoEv))
      [] OTHER -> DT(p, SyntaxErr("UnexpectedTokenInOpeningTag", p.lexer))

\* the whitespace and the = after the name
after_attribute_name(p, t) ==
    CASE t.t = "Character" /\ is_whitespace_char(t.c) -> DT(p, NoEv)
      [] t.t = "EqualsSign" -> DT([p EXCEPT !.st = "BeforeAttributeValue"], NoEv)
      [] OTHER -> DT(p, SyntaxErr("UnexpectedTokenInOpeningTag", p.lexer))

\* the whitespace and the opening quote after the =
before_attribute_value(p, t) ==
    CASE t.t = "Character" /\ is_whitespace_char(t.c) -> DT(p, NoEv)
      [] t.t = "DoubleQuote" -> DT([p EXCEPT !.st = "InsideAttributeValueDouble"], NoEv)
      [] t.t = "SingleQuote" -> DT([p EXCEPT !.st = "InsideAttributeValueSingle"], NoEv)
      [] OTHER -> DT(p, SyntaxErr("UnexpectedTokenInOpeningTag", p.lexer))

\* the value, up to the quote that opened it; < is forbidden in it.  The
\* events of this model carry no attributes: the value is read and dropped.
inside_attribute_value(p, t, quote) ==
    CASE t.t = quote -> DT([p EXCEPT !.st = "InsideTag", !.attr_name = <<>>], NoEv)
      [] t.t = "OpeningTagStart" -> DT(p, SyntaxErr("UnexpectedOpeningTag", p.lexer))
      [] OTHER -> DT(p, NoEv)

\* a closing tag handler that does not compare the name with the stack
inside_closing_tag_any_name(p, t) ==
    CASE t.t = "Character" /\ is_name_char(t.c) ->
            DT([p EXCEPT !.name_buf = Append(@, t.c)], NoEv)
      [] t.t = "TagEnd" /\ p.name_buf # <<>> ->
            DT([p EXCEPT !.st = "OutsideTag", !.name_buf = <<>>, !.est = Front(@)],
               Ev("EndElement", p.name_buf))
      [] OTHER -> DT(p, SyntaxErr("UnexpectedTokenInClosingTag", p.lexer))

inside_closing_tag(p, t) ==
    CASE second_colon(p.name_buf, t) -> DT(p, UnexpectedQualifiedName(t, p.lexer))
      [] name_continues(p.name_buf, t) ->
            DT([p EXCEPT !.name_buf = Append(@, t.c)], NoEv)
      [] t.t = "TagEnd" /\ p.name_buf # <<>> ->
            IF p.est # <<>> /\ Last(p.est) = p.name_buf
            THEN DT([p EXCEPT !.st = "OutsideTag", !.name_buf = <<>>, !.est = Front(@)],
                    Ev("EndElement", p.name_buf))
            ELSE DT(p, SyntaxErr("UnexpectedClosingTag", p.lexer))
      [] OTHER -> DT(p, SyntaxErr("UnexpectedTokenInClosingTag", p.lexer))

BuiltinEntity(name) ==
    CASE name = <<"l", "t">>                -> "<"
      [] name = <<"g", "t">>                -> ">"
      [] name = <<"a", "m", "p">>           -> "&"
      [] name = <<"a", "p", "o", "s">>      -> "'"
      [] name = <<"q", "u", "o", "t">>      -> "\""
      [] OTHER                              -> ""

inside_reference(p, t) ==
    CASE t.t = "Character" /\ is_name_char(t.c) ->
            DT([p EXCEPT !.ref_data = Append(@, t.c)], NoEv)
      [] t.t = "ReferenceEnd" ->
            LET name == p.ref_data
                p1 == [p EXCEPT !.ref_data = <<>>, !.st = "OutsideTag"]
            IN  IF name = <<>> THEN DT(p1, SyntaxErr("EmptyEntity", p.lexer))
                ELSE IF BuiltinEntity(name) # ""
                THEN DT([p1 EXCEPT !.buf = Append(@, BuiltinEntity(name))], NoEv)
                ELSE IF name \in DOMAIN p.entities
                THEN LET r == reparse(p.lexer, p.entities[name])
                         p2 == IF p.reparse_ok + p.reparse_err = 0
                               THEN [p1 EXCEPT !.reparse_base = p.lexer.queue_reads]
                               ELSE p1
                     IN  IF r.err = NoErr
                         THEN DT([p2 EXCEPT !.lexer = r.l, !.reparse_ok = @ + 1], NoEv)
                         ELSE DT([p2 EXCEPT !.lexer = r.l, !.reparse_err = @ + 1],
                                 ErrEv(r.err))
                ELSE DT(p1, SyntaxErr("UndefinedEntity", p.lexer))
      [] OTHER -> DT(p, SyntaxErr("UnexpectedTokenInEntity", p.lexer))

\* self_error!(self; "Unexpected token inside a comment: --")
UnexpectedInComment(l) == ErrEv(Err("UnexpectedToken", <<"-", "-">>, "", l.pos))

\* an inside_comment that buffers the tokens of a comment it ignores
inside_comment_buffers(p, t) ==
    IF t.t = "Chunk" /\ t.c = "--" THEN DT(p, UnexpectedInComment(p.lexer))
    ELSE IF t.t = "CommentEnd" /\ p.config.ignore_comments
    THEN DT([p EXCEPT !.st = "OutsideTag"], NoEv)
    ELSE IF t.t = "CommentEnd"
    THEN DT([p EXCEPT !.st = "OutsideTag", !.buf = <<>>], Ev("Comment", p.buf))
    ELSE DT([p EXCEPT !.buf = push_to_string(t, @)], NoEv)

\* PullParser::inside_comment (reader/parser/inside_comment.rs:7-30)
inside_comment(p, t) ==
    IF t.t = "Chunk" /\ t.c = "--" THEN DT(p, UnexpectedInComment(p.lexer))
    ELSE IF t.t = "CommentEnd" /\ p.config.ignore_comments
    THEN DT([p EXCEPT !.st = "OutsideTag"], NoEv)
    ELSE IF t.t = "CommentEnd"
    THEN DT([p EXCEPT !.st = "OutsideTag", !.buf = <<>>], Ev("Comment", p.buf))
    ELSE IF p.config.ignore_comments THEN DT(p, NoEv)
    ELSE DT([p EXCEPT !.buf = push_to_string(t, @)], NoEv)

dispatch_token(p, t) ==
    CASE p.st = "Prolog"           -> prolog(p, t)
      [] p.st = "OutsideTag"       -> outside_tag(p, t)
      [] p.st = "InsideOpeningTag" -> inside_opening_tag(p, t)
      [] p.st = "InsideTag"        -> inside_tag(p, t)
      [] p.st = "InsideAttributeName"  -> inside_attribute_name(p, t)
      [] p.st = "AfterAttributeName"   -> after_attribute_name(p, t)
      [] p.st = "BeforeAttributeValue" -> before_attribute_value(p, t)
      [] p.st = "InsideAttributeValueDouble" ->
            inside_attribute_value(p, t, "DoubleQuote")
      [] p.st = "InsideAttributeValueSingle" ->
            inside_attribute_value(p, t, "SingleQuote")
      [] p.st = "InsideClosingTag" -> inside_closing_tag(p, t)
      [] p.st = "InsideReference"  -> inside_reference(p, t)
      [] p.st = "InsideComment"    -> inside_comment(p, t)

\* What PullParser::next returns: the parser and the source after the call
\* and the Result<XmlEvent>.
PR(p, b, ev) == [p |-> p, b |-> b, ev |-> ev]

set_final_result(p, b, ev) == PR([p EXCEPT !.final_result = ev], b, ev)

\* The source is exhausted.  In streaming mode (ignore_end_of_stream) the
\* error is transient: no final result is stored and the lexer is told to
\* read the source again on the next call.
handle_eof(p, b) ==
    IF p.est = <<>> /\ p.encountered = "Element" /\ p.st = "OutsideTag"
    THEN set_final_result(p, b, Ev("EndDocument", <<>>))
    ELSE IF p.config.ignore_end_of_stream
    THEN PR([p EXCEPT !.lexer = reset_eof_handled(@)], b,
            SyntaxErr("UnexpectedEof", p.lexer))
    ELSE IF p.est # <<>>
    THEN set_final_result(p, b, SyntaxErr("UnbalancedRootElement", p.lexer))
    ELSE IF p.encountered # "Element"
    THEN set_final_result(p, b, SyntaxErr("NoRootElement", p.lexer))
    ELSE set_final_result(p, b, SyntaxErr("UnexpectedEof", p.lexer))

RECURSIVE read_event(_, _)

\* d is what dispatch_token returned: no event yet (read on), an error
\* (which becomes the final result) or an event
token_dispatched(d, b) ==
    IF d.ev = NoEv THEN read_event(d.p, b)
    ELSE IF d.ev.k = "Error" THEN set_final_result(d.p, b, d.ev)
    ELSE PR(d.p, b, d.ev)

\* r is what Lexer::next_token returned.  In streaming mode the lexer's
\* UnexpectedEof is transient as well.
token_read(p, r) ==
    IF r.err # NoErr
    THEN IF p.config.ignore_end_of_stream /\ r.err.kind = "UnexpectedEof"
         THEN PR([p EXCEPT !.lexer = reset_eof_handled(r.l)], r.b, ErrEv(r.err))
         ELSE set_final_result([p EXCEPT !.lexer = r.l], r.b, ErrEv(r.err))
    ELSE IF r.tok = Eof THEN handle_eof([p EXCEPT !.lexer = r.l], r.b)
    ELSE token_dispatched(dispatch_token([p EXCEPT !.lexer = r.l], r.tok), r.b)

\* the loop of PullParser::next: tokens are read until one completes an event
read_event(p, b) == token_read(p, next_token(p.lexer, b))

\* a next that forgets the final result and reads on
PullParser_next_not_sticky(p, b) ==
    IF p.next_event # NoEv
    THEN PR([p EXCEPT !.next_event = NoEv, !.est = Front(@)], b, p.next_event)
    ELSE read_event([p EXCEPT !.lexer = reset_eof_handled(@)], b)

PullParser_next(p, b) ==
    IF p.final_result # NoEv THEN PR(p, b, p.final_result)
    ELSE IF p.next_event # NoEv
    THEN \* the EndElement queued by an empty-element tag
         PR([p EXCEPT !.next_event = NoEv, !.est = Front(@)], b, p.next_event)
    ELSE read_event(p, b)

\* What add_entities returns: the parser after the call and the Result<()>.
AE(p, res) == [p |-> p, res |-> res]

\* an add_entities that accepts entities at any time
add_entities_at_any_time(p, name, value) ==
    AE([p EXCEPT !.entities = [n \in DOMAIN @ \cup {name} |->
                                  IF n = name THEN value ELSE @[n]]], "Ok")

\* add_entities: an entity may be added only before the root element's
\* start, that is until the parser has met the root element; later
\* additions fail
add_entities(p, name, value) ==
    IF p.encountered = "Element" THEN AE(p, "Err")
    ELSE AE([p EXCEPT !.entities = [n \in DOMAIN @ \cup {name} |->
                                       IF n = name THEN value ELSE @[n]]], "Ok")

(***************************************************************************)
(* The reader facade (src/reader.rs).                                      *)
(***************************************************************************)
\* EventReader::next
EventReader_next(p, b) == PullParser_next(p, b)

\* What skip returns: the reader after the call, the Result<()> ("Ok" or
\* "Err" with the error in ev; "Panic" for unreachable!()), and the events
\* its calls of next returned
SK(p, b, res, ev, evs) == [p |-> p, b |-> b, res |-> res, ev |-> ev, evs |-> evs]

RECURSIVE skip_from(_, _, _, _)

\* a skip that stops at the first end tag, nested or not
skip_next_uncounted(depth, r, evs) ==
    CASE r.ev.k = "Error" -> SK(r.p, r.b, "Err", r.ev, evs)
      [] r.ev.k = "EndElement" -> skip_from(depth - 1, r.p, r.b, Append(evs, r.ev))
      [] r.ev.k = "EndDocument" -> SK(r.p, r.b, "Panic", NoEv, Append(evs, r.ev))
      [] OTHER -> skip_from(depth, r.p, r.b, Append(evs, r.ev))

\* skip, reader.rs:66-71: r is what self.next() returned
skip_next(depth, r, evs) ==
    CASE r.ev.k = "Error" -> SK(r.p, r.b, "Err", r.ev, evs)
      [] r.ev.k = "StartElement" -> skip_from(depth + 1, r.p, r.b, Append(evs, r.ev))
      [] r.ev.k = "EndElement" -> skip_from(depth - 1, r.p, r.b, Append(evs, r.ev))
      [] r.ev.k = "EndDocument" -> SK(r.p, r.b, "Panic", NoEv, Append(evs, r.ev))
      [] OTHER -> skip_from(depth, r.p, r.b, Append(evs, r.ev))

\* skip, reader.rs:65-74: the loop while depth > 0
skip_from(depth, p, b, evs) ==
    IF depth > 0 THEN skip_next(depth, EventReader_next(p, b), evs)
    ELSE SK(p, b, "Ok", NoEv, evs)

\* EventReader::skip
skip(p, b) == skip_from(1, p, b, <<>>)

\* What Events::next returns: the iterator's fields after the call, the
\* Option<Result<XmlEvent>> (item = NoEv for None) and whether the
\* underlying reader was called.
IT(fin, p, b, item, called) ==
    [finished |-> fin, p |-> p, b |-> b, item |-> item, called |-> called]

\* Events::next, reader.rs:139-143: r is what EventReader::next returned
Events_polled(fin, r) == IT(fin \/ Terminal(r.ev), r.p, r.b, r.ev, TRUE)

\* an iterator that never stops
Events_next_unfused(fin, p, b) == Events_polled(fin, EventReader_next(p, b))

\* Events::next
Events_next(fin, p, b) ==
    IF fin /\ ~is_ignoring_end_of_stream(p)
    THEN IT(fin, p, b, NoEv, FALSE)
    ELSE Events_polled(fin, EventReader_next(p, b))

(***************************************************************************)
(* Bounds and input sets of the reader model.                              *)
(***************************************************************************)
\* a document is the concatenation of at most MaxPieces pieces
MaxPieces == 3

\* the counters repeats and it_terminals stop counting at MaxCount
MaxCount == 2

\* the longest text buffer with which the reader is still polled
MaxText == 4

\* the largest max_entity_expansion_depth tried
MaxDepth == 3

\* the max_entity_expansion_length of the readers (a queue this long is
\* never reached by the documents below)
MaxLength == 8

Pieces ==
    { <<"<", "a", ">">>, <<"<", "/", "a", ">">>,
      <<"<", "b", ">">>, <<"<", "/", "b", ">">>,
      <<"<", "b", "/", ">">>, <<"x">>, <<"/">> }

RECURSIVE Docs(_)
Docs(n) ==
    IF n = 0 THEN { <<>> }
    ELSE Docs(n - 1) \cup { d \o q : d \in Docs(n - 1), q \in Pieces }

NoEntities == [n \in {} |-> <<>>]

\* entity declarations whose replacement text ends in a reference that
\* leads back to the entity itself
SelfReferences ==
    { [n \in { <<"e">> } |-> <<"&", "e", ";">>],
      [n \in { <<"e">> } |-> <<"x", "&", "e", ";">>],
      [n \in { <<"e">>, <<"f">> } |->
          IF n = <<"e">> THEN <<"&", "f", ";">> ELSE <<"y", "&", "e", ";">>] }

EntityDocs ==
    { <<"<", "a", ">", "&", "e", ";", "<", "/", "a", ">">>,
      <<"<", "a", ">", "x", "&", "e", ";", "<", "/", "a", ">">> }

RECURSIVE RunWhole(_, _)

RunOn(r) == IF Terminal(r.ev) THEN <<r.ev>> ELSE <<r.ev>> \o RunWhole(r.p, r.b)

\* the results of polling a reader until it returns a final result or an
\* error
RunWhole(p, b) == RunOn(EventReader_next(p, b))

(***************************************************************************)
(* The writer as a state machine: one action per emitter operation.        *)
(***************************************************************************)
\* the writer while the reader is the machine that runs
WIdle ==
    /\ emitter = EmitterNew(CHOOSE c \in EmitterConfigs :
                    \A f \in DOMAIN c : c[f] = (f \in {"pad_self_closing",
                                                        "normalize_empty_elements",
                                                        "write_document_declaration",
                                                        "keep_element_names_stack"}))
    /\ target = <<>>
    /\ last_call = [op |-> "new", arg |-> NoName]
    /\ last_result = "Ok"
    /\ all_ok = TRUE
    /\ calls = 0
    /\ just_started = FALSE
    /\ mixed = <<>>

\* the reader while the writer is the machine that runs
RIdle ==
    /\ doc = <<>>
    /\ fed = 0
    /\ source = <<>>
    /\ parser = PullParserNew(ParserConfigOf(FALSE, MaxDepth, MaxLength), NoEntities)
    /\ via = "reader"
    /\ finished = FALSE
    /\ last_ev = NoEv
    /\ last_item = NoEv
    /\ delivered = <<>>
    /\ whole = <<>>
    /\ repeats = 0
    /\ it_terminals = 0
    /\ skips = 0
    /\ skip_result = "None"
    /\ adds = 0
    /\ add_result = "None"

\* the text round trip while another machine runs
TIdle ==
    /\ t_kind = "none"
    /\ t_content = <<>>
    /\ t_autopad = FALSE
    /\ t_result = "None"
    /\ t_output = <<>>
    /\ t_unread = <<>>
    /\ t_lexer = LexerNew(MaxDepth, MaxLength)
    /\ t_tokens = <<>>
    /\ t_error = NoErr

\* the namespace stack while another machine runs
NIdle ==
    /\ nst = <<>>
    /\ ns_op = "new"
    /\ ns_written = <<>>

\* the lexer on its own while another machine runs
LIdle ==
    /\ lx_input = <<>>
    /\ lx_source = <<>>
    /\ lx_lexer = LexerNew(MaxDepth, MaxLength)
    /\ lx_op = [op |-> "new", arg |-> <<>>]
    /\ lx_result = [tok |-> NoTok, err |-> NoErr]
    /\ lx_prev = [l |-> LexerNew(MaxDepth, MaxLength), b |-> <<>>]
    /\ lx_tokens = <<>>
    /\ lx_after = 0
    /\ lx_ops = 0

WInit ==
    /\ emitter \in { EmitterNew(c) : c \in EmitterConfigs }
    /\ target = <<>>
    /\ last_call = [op |-> "new", arg |-> NoName]
    /\ last_result = "Ok"
    /\ all_ok = TRUE
    /\ calls = 0
    /\ just_started = FALSE
    /\ mixed = <<>>
    /\ RIdle
    /\ TIdle
    /\ NIdle
    /\ LIdle

Returned(r, op, arg) ==
    /\ calls < MaxCalls
    /\ emitter' = r.e
    /\ target' = r.out
    /\ last_call' = [op |-> op, arg |-> arg]
    /\ last_result' = r.res
    /\ all_ok' = (all_ok /\ r.res = "Ok")
    /\ calls' = calls + 1
    /\ just_started' = IF r.res # "Ok" \/ op = "emit_start_document" THEN just_started
                       ELSE op = "emit_start_element"
    /\ mixed' = CASE r.res # "Ok" -> mixed
                  [] op = "emit_start_element" -> Append(mixed, FALSE)
                  [] op = "emit_end_element" /\ mixed # <<>> -> Front(mixed)
                  [] op \in {"emit_characters", "emit_raw_characters", "emit_cdata"}
                        /\ mixed # <<>> -> [mixed EXCEPT ![Len(mixed)] = TRUE]
                  [] OTHER -> mixed
    /\ UNCHANGED rvars
    /\ UNCHANGED tvars
    /\ UNCHANGED nvars
    /\ UNCHANGED lvars

EmitStartDocument ==
    \E standalone \in {"none", "yes"} :
        Returned(emit_start_document(emitter, target, standalone),
                 "emit_start_document", standalone)

EmitProcessingInstruction ==
    Returned(emit_processing_instruction(emitter, target),
             "emit_processing_instruction", NoName)

EmitStartElement ==
    \E name \in ElementNames :
        Returned(emit_start_element(emitter, target, name),
                 "emit_start_element", name)

EmitEndElement ==
    \E name \in ElementNames \cup {NoName} :
        Returned(emit_end_element(emitter, target, name),
                 "emit_end_element", name)

EmitCData ==
    Returned(emit_cdata(emitter, target), "emit_cdata", NoName)

EmitCharacters ==
    Returned(emit_characters(emitter, target), "emit_characters", NoName)

EmitRawCharacters ==
    Returned(emit_raw_characters(emitter, target), "emit_raw_characters", NoName)

EmitComment ==
    Returned(emit_comment(emitter, target), "emit_comment", NoName)

WNext ==
    \/ EmitStartDocument
    \/ EmitProcessingInstruction
    \/ EmitStartElement
    \/ EmitEndElement
    \/ EmitCData
    \/ EmitCharacters
    \/ EmitRawCharacters
    \/ EmitComment

SpecWriter == WInit /\ [][WNext]_vars

(***************************************************************************)
(* The reader as a state machine.  A producer writes the document to the   *)
(* source one character at a time (Feed); the consumer polls the reader    *)
(* directly (ReaderNext) or through the Events iterator (EventsNext).      *)
(***************************************************************************)
ReaderStart(d, config, entities, v) ==
    /\ doc = d
    /\ fed = 0
    /\ source = <<>>
    /\ parser = PullParserNew(config, entities)
    /\ via = v
    /\ finished = FALSE
    /\ last_ev = NoEv
    /\ last_item = NoEv
    /\ delivered = <<>>
    /\ whole = RunWhole(PullParserNew(config, entities), d)
    /\ repeats = 0
    /\ it_terminals = 0
    /\ skips = 0
    /\ skip_result = "None"
    /\ adds = 0
    /\ add_result = "None"

Init ==
    /\ \E d \in Docs(MaxPieces), streaming \in BOOLEAN, v \in {"reader", "events"} :
          ReaderStart(d, ParserConfigOf(streaming, MaxDepth, MaxLength), NoEntities, v)
    /\ WIdle
    /\ TIdle
    /\ NIdle
    /\ LIdle

EntityInit ==
    /\ \E d \in EntityDocs, streaming \in BOOLEAN, v \in {"reader", "events"},
          n \in 1..MaxDepth, entities \in SelfReferences :
          ReaderStart(d, ParserConfigOf(streaming, n, MaxLength), entities, v)
    /\ WIdle
    /\ TIdle
    /\ NIdle
    /\ LIdle

Count(n) == IF n < MaxCount THEN n + 1 ELSE n

\* the producer appends the next character of the document to the source
Feed ==
    /\ fed < Len(doc)
    /\ fed' = fed + 1
    /\ source' = Append(source, doc[fed + 1])
    /\ UNCHANGED <<doc, parser, via, finished, last_ev, last_item, delivered,
                   whole, repeats, it_terminals, skips, skip_result, adds,
                   add_result>>
    /\ UNCHANGED wvars
    /\ UNCHANGED tvars
    /\ UNCHANGED nvars
    /\ UNCHANGED lvars

\* the bookkeeping of one call of EventReader::next that returned r; the
\* consumer stops polling once the text buffer holds MaxText characters
Polled(r) ==
    /\ Len(parser.buf) < MaxText
    /\ parser' = r.p
    /\ source' = r.b
    /\ last_ev' = r.ev
    /\ delivered' = IF r.ev.k # "Error" /\ parser.final_result = NoEv
                    THEN Append(delivered, r.ev) ELSE delivered
    /\ repeats' = IF parser.final_result # NoEv THEN Count(repeats) ELSE repeats

\* reader.next()
ReaderNext ==
    /\ via = "reader"
    /\ Polled(EventReader_next(parser, source))
    /\ UNCHANGED <<doc, fed, via, finished, last_item, whole, it_terminals,
                   skips, skip_result, adds, add_result>>
    /\ UNCHANGED wvars
    /\ UNCHANGED tvars
    /\ UNCHANGED nvars
    /\ UNCHANGED lvars

\* the bookkeeping of one call of EventReader::skip that returned r
Skipped(r) ==
    /\ parser' = r.p
    /\ source' = r.b
    /\ skip_result' = r.res
    /\ last_ev' = IF r.res = "Err" THEN r.ev
                  ELSE IF r.evs # <<>> THEN Last(r.evs) ELSE last_ev
    /\ delivered' = delivered \o r.evs

\* reader.skip(), called on the start tag of an element of no interest
ReaderSkip ==
    /\ via = "reader"
    /\ last_ev.k = "StartElement"
    /\ skips < MaxCount
    /\ Len(parser.buf) < MaxText
    /\ skips' = skips + 1
    /\ Skipped(skip(parser, source))
    /\ UNCHANGED <<doc, fed, via, finished, last_item, whole, repeats, it_terminals,
                   adds, add_result>>
    /\ UNCHANGED wvars
    /\ UNCHANGED tvars
    /\ UNCHANGED nvars
    /\ UNCHANGED lvars

\* the entities the consumer may add
Additions == { [name |-> <<"e">>, value |-> <<"x">>],
               [name |-> <<"f">>, value |-> <<"y">>] }

\* the bookkeeping of one call of add_entities that returned r
Added(r) ==
    /\ parser' = r.p
    /\ add_result' = r.res

\* reader.add_entities([(name, value)]) for an entity not yet known, on
\* the reader or on its iterator
AddEntities ==
    /\ adds < MaxCount
    /\ adds' = adds + 1
    /\ \E a \in Additions :
          /\ a.name \notin DOMAIN parser.entities
          /\ Added(add_entities(parser, a.name, a.value))
    /\ UNCHANGED <<doc, fed, source, via, finished, last_ev, last_item, delivered,
                   whole, repeats, it_terminals, skips, skip_result>>
    /\ UNCHANGED wvars
    /\ UNCHANGED tvars
    /\ UNCHANGED nvars
    /\ UNCHANGED lvars

\* the bookkeeping of one call of Events::next that returned r
Iterated(r) ==
    /\ finished' = r.finished
    /\ last_item' = r.item
    /\ it_terminals' = IF Terminal(r.item) THEN Count(it_terminals) ELSE it_terminals
    /\ IF r.called THEN Polled(PR(r.p, r.b, r.item))
       ELSE UNCHANGED <<parser, source, last_ev, delivered, repeats>>

\* reader.into_iter().next()
EventsNext ==
    /\ via = "events"
    /\ Iterated(Events_next(finished, parser, source))
    /\ UNCHANGED <<doc, fed, via, whole, skips, skip_result, adds, add_result>>
    /\ UNCHANGED wvars
    /\ UNCHANGED tvars
    /\ UNCHANGED nvars
    /\ UNCHANGED lvars

Next ==
    \/ Feed
    \/ ReaderNext
    \/ ReaderSkip
    \/ AddEntities
    \/ EventsNext

Spec == Init /\ [][Next]_vars

SpecEntity == EntityInit /\ [][Next]_vars

\* the reader on documents that refer to an entity no declaration defines
UndeclaredInit ==
    /\ \E d \in EntityDocs, streaming \in BOOLEAN, v \in {"reader", "events"} :
          ReaderStart(d, ParserConfigOf(streaming, MaxDepth, MaxLength), NoEntities, v)
    /\ WIdle
    /\ TIdle
    /\ NIdle
    /\ LIdle

SpecUndeclared == UndeclaredInit /\ [][Next]_vars

(***************************************************************************)
(* One text written by the emitter, or received as the data of a           *)
(* processing instruction, and read back by the lexer token by token.      *)
(***************************************************************************)
MaxCData == 6

MaxComment == 4

MaxData == 3

\* the strings of at most n characters of alphabet
Strings(alphabet, n) == UNION { [1..m -> alphabet] : m \in 0..n }

CDataContents == Strings({"]", ">", "a"}, MaxCData)

CommentContents == Strings({"-", "a", " "}, MaxComment)

DataContents ==
    Strings({"/", "<", ">", "=", "\"", "'", "&", ";", "?", "a"}, MaxData)

TInit ==
    /\ \/ t_kind = "cdata" /\ t_content \in CDataContents /\ t_autopad = FALSE
       \/ t_kind = "comment" /\ t_content \in CommentContents /\ t_autopad \in BOOLEAN
       \/ t_kind = "pi" /\ t_content \in DataContents /\ t_autopad = FALSE
    /\ t_result = "None"
    /\ t_output = <<>>
    /\ t_unread = <<>>
    /\ t_lexer = LexerNew(MaxDepth, MaxLength)
    /\ t_tokens = <<>>
    /\ t_error = NoErr
    /\ WIdle
    /\ RIdle
    /\ NIdle
    /\ LIdle

\* the bookkeeping of a write that returned r
Wrote(r) ==
    /\ t_result = "None"
    /\ t_result' = r.res
    /\ t_output' = r.bytes
    /\ t_unread' = r.bytes
    /\ UNCHANGED <<t_kind, t_content, t_autopad, t_lexer, t_tokens, t_error>>
    /\ UNCHANGED wvars
    /\ UNCHANGED rvars
    /\ UNCHANGED nvars
    /\ UNCHANGED lvars

\* writer.write(XmlEvent::CData(content)), cdata_to_characters unset
WriteCData ==
    /\ t_kind = "cdata"
    /\ Wrote(cdata_write(t_content))

\* writer.write(XmlEvent::Comment(content))
WriteComment ==
    /\ t_kind = "comment"
    /\ Wrote(comment_write(t_autopad, t_content))

\* the source holds the processing instruction <?x data?>
ReceiveInstruction ==
    /\ t_kind = "pi"
    /\ Wrote(WR("Ok", <<"<", "?", "x", " ">> \o t_content \o <<"?", ">">>))

\* the bookkeeping of a call of next_token that returned r
Lexed(r) ==
    /\ t_lexer' = r.l
    /\ t_unread' = r.b
    /\ t_tokens' = IF r.err = NoErr THEN Append(t_tokens, r.tok) ELSE t_tokens
    /\ t_error' = r.err

\* lexer.next_token(), until it returns the end of the stream or an error
LexToken ==
    /\ t_result = "Ok"
    /\ t_error = NoErr
    /\ IF t_tokens = <<>> THEN TRUE ELSE Last(t_tokens) # Eof
    /\ Lexed(next_token(t_lexer, t_unread))
    /\ UNCHANGED <<t_kind, t_content, t_autopad, t_result, t_output>>
    /\ UNCHANGED wvars
    /\ UNCHANGED rvars
    /\ UNCHANGED nvars
    /\ UNCHANGED lvars

TNext ==
    \/ WriteCData
    \/ WriteComment
    \/ ReceiveInstruction
    \/ LexToken

SpecText == TInit /\ [][TNext]_vars

(***************************************************************************)
(* The namespace stack of the writer.  A start element pushes a frame      *)
(* holding the bindings of the event and writes its declarations; an end   *)
(* element pops the frame.                                                 *)
(***************************************************************************)
MaxFrames == 2

\* the functions from a subset of {p1, p2, ...} to the URIs allowed for each
Bindings(uris) ==
    UNION { { f \in [ps -> UNION { uris[p] : p \in ps }] : \A p \in ps : f[p] \in uris[p] }
            : ps \in SUBSET DOMAIN uris }

\* the namespaces a StartElement event may carry
Namespaces ==
    Bindings([p \in {NS_NO_PREFIX, "a", NS_XML_PREFIX, NS_XMLNS_PREFIX} |->
                 CASE p = NS_NO_PREFIX -> {NS_EMPTY_URI, "u", "v"}
                   [] p = "a"          -> {"u", "v"}
                   [] OTHER            -> {"u"}])

NInit ==
    /\ nst = <<>>
    /\ ns_op = "new"
    /\ ns_written = <<>>
    /\ WIdle
    /\ RIdle
    /\ TIdle
    /\ LIdle

\* writer.write(XmlEvent::StartElement { namespace, .. }): the bindings of
\* the event become the top frame, then the start tag is written
NsStartElement ==
    /\ Len(nst) < MaxFrames
    /\ \E namespace \in Namespaces :
          /\ nst' = Append(nst, namespace)
          /\ ns_written' = emit_current_namespace_attributes(Append(nst, namespace), 1)
    /\ ns_op' = "start"
    /\ UNCHANGED wvars
    /\ UNCHANGED rvars
    /\ UNCHANGED tvars
    /\ UNCHANGED lvars

\* writer.write(XmlEvent::EndElement { .. }): the end tag is written, then
\* the top frame is dropped
NsEndElement ==
    /\ nst # <<>>
    /\ nst' = Front(nst)
    /\ ns_op' = "end"
    /\ UNCHANGED ns_written
    /\ UNCHANGED wvars
    /\ UNCHANGED rvars
    /\ UNCHANGED tvars
    /\ UNCHANGED lvars

NNext ==
    \/ NsStartElement
    \/ NsEndElement

SpecNamespace == NInit /\ [][NNext]_vars

(***************************************************************************)
(* The reader on one tag whose name holds colons.                          *)
(***************************************************************************)
\* the longest name after its first character
MaxName == 3

\* names that start with a letter and hold any number of :
QualifiedNames == { <<"a">> \o t : t \in Strings({"a", ":"}, MaxName) }

\* what stands before the tag: nothing, the start tag of the root
Before == { <<>>, <<"<", "b", ">">> }

\* the tag that holds the name: as the name of an empty element, as the
\* name of an attribute, as the name of an end tag
Forms == { "element", "attribute", "closing" }

TagBefore(form) ==
    CASE form = "element"   -> <<"<">>
      [] form = "attribute" -> <<"<", "a", ":", "a", " ">>
      [] form = "closing"   -> <<"<", "/">>

TagAfter(form) ==
    CASE form = "element"   -> <<"/", ">">>
      [] form = "attribute" -> <<"=", "\"", "x", "\"", "/", ">">>
      [] form = "closing"   -> <<">">>

QualifiedDoc(pre, form, n) == pre \o TagBefore(form) \o n \o TagAfter(form)

\* an end tag stands inside an element only
QualifiedDocs ==
    { QualifiedDoc(pre, form, n) :
          pre \in Before, form \in Forms \ {"closing"}, n \in QualifiedNames }
    \cup { QualifiedDoc(pre, "closing", n) :
              pre \in Before \ { <<>> }, n \in QualifiedNames }

\* the reader on documents whose last tag holds a name with colons
QualifiedInit ==
    /\ \E d \in QualifiedDocs, streaming \in BOOLEAN, v \in {"reader", "events"} :
          ReaderStart(d, ParserConfigOf(streaming, MaxDepth, MaxLength), NoEntities, v)
    /\ WIdle
    /\ TIdle
    /\ NIdle
    /\ LIdle

SpecQualified == QualifiedInit /\ [][Next]_vars

(***************************************************************************)
(* The reader on an element that holds one comment, with text before and   *)
(* after it, with and without ignore_comments.                             *)
(***************************************************************************)
\* the characters between <!-- and -->
MaxBody == 2

CommentBodies == Strings({"c", "-", "<"}, MaxBody)

\* the text before and after the comment
Around == { <<>>, <<"x">> }

CommentDoc(pre, body, post) ==
    <<"<", "a", ">">> \o pre \o <<"<", "!", "-", "-">> \o body \o <<"-", "-", ">">>
        \o post \o <<"<", "/", "a", ">">>

CommentDocs == { CommentDoc(pre, body, post) :
                    pre \in Around, body \in CommentBodies, post \in Around }

CommentConfigOf(streaming, ignore) ==
    [ParserConfigOf(streaming, MaxDepth, MaxLength) EXCEPT !.ignore_comments = ignore]

CommentInit ==
    /\ \E d \in CommentDocs, streaming \in BOOLEAN, ignore \in BOOLEAN :
          ReaderStart(d, CommentConfigOf(streaming, ignore), NoEntities, "reader")
    /\ WIdle
    /\ TIdle
    /\ NIdle
    /\ LIdle

CommentNext ==
    \/ Feed
    \/ ReaderNext

SpecComment == CommentInit /\ [][CommentNext]_vars

(***************************************************************************)
(* The reader with a consumer that calls skip at any point of the          *)
(* document.  unreachable!() ends the program: nothing is called after it. *)
(***************************************************************************)
SkipInit ==
    /\ \E d \in Docs(MaxPieces), streaming \in BOOLEAN :
          ReaderStart(d, ParserConfigOf(streaming, MaxDepth, MaxLength), NoEntities,
                      "reader")
    /\ WIdle
    /\ TIdle
    /\ NIdle
    /\ LIdle

\* reader.skip(), whatever the last event was
ReaderSkipAnywhere ==
    /\ via = "reader"
    /\ skip_result # "Panic"
    /\ skips < MaxCount
    /\ Len(parser.buf) < MaxText
    /\ skips' = skips + 1
    /\ Skipped(skip(parser, source))
    /\ UNCHANGED <<doc, fed, via, finished, last_item, whole, repeats, it_terminals,
                   adds, add_result>>
    /\ UNCHANGED wvars
    /\ UNCHANGED tvars
    /\ UNCHANGED nvars
    /\ UNCHANGED lvars

\* the consumer goes on only while the program has not panicked
SkipFeed ==
    /\ skip_result # "Panic"
    /\ Feed

SkipReaderNext ==
    /\ skip_result # "Panic"
    /\ ReaderNext

SkipNext ==
    \/ SkipFeed
    \/ SkipReaderNext
    \/ ReaderSkipAnywhere

SpecSkip == SkipInit /\ [][SkipNext]_vars

(***************************************************************************)
(* The lexer on its own.  In SpecLexer the source holds one input from the *)
(* start and next_token is called until the end of the stream and          *)
(* MaxAfter times more.  In SpecReparse the source starts empty and grows  *)
(* by pieces, and reparse and reset_eof_handled are called between the     *)
(* tokens as a parser may call them.                                       *)
(***************************************************************************)
\* the characters that follow a prefix of a sigil
MaxTail == 2

\* the characters of a CDATA section or of a comment
MaxSection == 5

\* the pieces after <!DOCTYPE
MaxDeclarations == 4

\* the calls of next_token made after the end of the stream
MaxAfter == 2

\* the calls of reparse and reset_eof_handled in SpecReparse
MaxOps == 2

\* the source is fed while it was given fewer characters than this
MaxInput == 3

\* max_entity_expansion_depth and max_entity_expansion_length in SpecReparse
MaxReparseDepth == 2

MaxQueue == 2

SigilComment == <<"<", "!", "-", "-">>

SigilCData == <<"<", "!", "[", "C", "D", "A", "T", "A", "[">>

SigilDoctype == <<"<", "!", "D", "O", "C", "T", "Y", "P", "E">>

Prefixes(s) == { SubSeq(s, 1, n) : n \in 0..Len(s) }

MarkupChars == {"<", ">", "&", ";", "=", "\"", "'", "/", "?", "-", "!", "["}

TailChars == MarkupChars \cup {"]", "E", "a", " ", "\n"}

\* what may stand before a sigil: nothing, a character, a / that the lexer
\* holds until it has read the next character, a line
Leads == { <<>>, <<"a">>, <<"/">>, <<"\n">> }

\* a prefix of a sigil, after a lead, followed by any characters
SigilInputs ==
    { lead \o h \o t : lead \in Leads,
                       h \in Prefixes(SigilComment) \cup Prefixes(SigilCData)
                             \cup Prefixes(SigilDoctype),
                       t \in Strings(TailChars, MaxTail) }

SectionTexts ==
    Strings({"]", ">", "a"}, MaxSection) \cup Strings(MarkupChars \cup {"]"}, MaxTail)

\* <![CDATA[ followed by any text
CDataInputs == { SigilCData \o t : t \in SectionTexts }

CommentTexts == Strings({"-", ">", "a"}, MaxSection)

\* any text, in a comment and outside
CommentInputs == CommentTexts \cup { SigilComment \o t : t \in CommentTexts }

DoctypePieces ==
    { <<"<", "!", "E">>, <<"<", "!", "A">>, <<"\"", ">", "\"">>, <<"'", ">", "'">>,
      SigilComment, <<"-", "-", ">">>, <<"<", "?">>, <<"?", ">">>, <<">">>, <<"a">>,
      <<"\"">>, SigilCData, <<"]", "]", ">">> }

RECURSIVE Concatenations(_, _)
Concatenations(pieces, n) ==
    IF n = 0 THEN { <<>> }
    ELSE Concatenations(pieces, n - 1)
         \cup { d \o q : d \in Concatenations(pieces, n - 1), q \in pieces }

\* <!DOCTYPE followed by declarations, comments and instructions
DoctypeInputs == { SigilDoctype \o t : t \in Concatenations(DoctypePieces, MaxDeclarations) }

LexerInputs == SigilInputs \cup CDataInputs \cup CommentInputs \cup DoctypeInputs

\* the lexer l about to read the source b
LexerStart(l, b) ==
    /\ lx_input = b
    /\ lx_source = b
    /\ lx_lexer = l
    /\ lx_op = [op |-> "new", arg |-> <<>>]
    /\ lx_result = [tok |-> NoTok, err |-> NoErr]
    /\ lx_prev = [l |-> l, b |-> b]
    /\ lx_tokens = <<>>
    /\ lx_after = 0
    /\ lx_ops = 0

LInit ==
    /\ \E b \in LexerInputs : LexerStart(LexerNew(MaxDepth, MaxLength), b)
    /\ WIdle
    /\ RIdle
    /\ TIdle
    /\ NIdle

ReparseInit ==
    /\ LexerStart(LexerNew(MaxReparseDepth, MaxQueue), <<>>)
    /\ WIdle
    /\ RIdle
    /\ TIdle
    /\ NIdle

\* the bookkeeping of a call of next_token that returned r
LxCalled(r) ==
    /\ lx_lexer' = r.l
    /\ lx_source' = r.b
    /\ lx_result' = [tok |-> r.tok, err |-> r.err]
    /\ lx_tokens' = Append(lx_tokens, [tok |-> r.tok, err |-> r.err])

\* lexer.next_token(&mut source)
LxNextToken ==
    /\ lx_after < MaxAfter
    /\ lx_after' = IF lx_lexer.eof_handled THEN lx_after + 1 ELSE lx_after
    /\ lx_op' = [op |-> "next_token", arg |-> <<>>]
    /\ lx_prev' = [l |-> lx_lexer, b |-> lx_source]
    /\ LxCalled(next_token(lx_lexer, lx_source))
    /\ UNCHANGED <<lx_input, lx_ops>>
    /\ UNCHANGED wvars
    /\ UNCHANGED rvars
    /\ UNCHANGED tvars
    /\ UNCHANGED nvars

\* the replacement texts a parser may push back
Markups == { <<>>, <<"a", "b">>, <<"<", "a", ">">> }

\* the bookkeeping of a call of reparse that returned r
LxReparsed(r, markup) ==
    /\ lx_lexer' = r.l
    /\ lx_result' = [tok |-> NoTok, err |-> r.err]
    /\ lx_op' = [op |-> "reparse", arg |-> markup]

\* lexer.reparse(markup)
LxReparse ==
    /\ lx_ops < MaxOps
    /\ lx_ops' = lx_ops + 1
    /\ lx_prev' = [l |-> lx_lexer, b |-> lx_source]
    /\ \E markup \in Markups : LxReparsed(reparse(lx_lexer, markup), markup)
    /\ UNCHANGED <<lx_input, lx_source, lx_tokens, lx_after>>
    /\ UNCHANGED wvars
    /\ UNCHANGED rvars
    /\ UNCHANGED tvars
    /\ UNCHANGED nvars

\* lexer.reset_eof_handled(), as a parser that ignores the end of the
\* stream calls it after the lexer reported the end
LxResetEofHandled ==
    /\ lx_ops < MaxOps
    /\ lx_lexer.eof_handled
    /\ lx_ops' = lx_ops + 1
    /\ lx_prev' = [l |-> lx_lexer, b |-> lx_source]
    /\ lx_lexer' = reset_eof_handled(lx_lexer)
    /\ lx_op' = [op |-> "reset_eof_handled", arg |-> <<>>]
    /\ lx_result' = [tok |-> NoTok, err |-> NoErr]
    /\ UNCHANGED <<lx_input, lx_source, lx_tokens, lx_after>>
    /\ UNCHANGED wvars
    /\ UNCHANGED rvars
    /\ UNCHANGED tvars
    /\ UNCHANGED nvars

\* what the producer may append to the source at once
FeedPieces == { <<"/">>, <<"]", "]">>, <<"<">>, <<"a">>, SigilComment \o <<"-">> }

\* the producer appends a piece to the source
LxFeed ==
    /\ Len(lx_input) < MaxInput
    /\ lx_prev' = [l |-> lx_lexer, b |-> lx_source]
    /\ \E piece \in FeedPieces :
          /\ lx_input' = lx_input \o piece
          /\ lx_source' = lx_source \o piece
          /\ lx_op' = [op |-> "feed", arg |-> piece]
    /\ lx_result' = [tok |-> NoTok, err |-> NoErr]
    /\ UNCHANGED <<lx_lexer, lx_tokens, lx_after, lx_ops>>
    /\ UNCHANGED wvars
    /\ UNCHANGED rvars
    /\ UNCHANGED tvars
    /\ UNCHANGED nvars

LNext == LxNextToken

SpecLexer == LInit /\ [][LNext]_vars

ReparseNext ==
    \/ LxFeed
    \/ LxNextToken
    \/ LxReparse
    \/ LxResetEofHandled

SpecReparse == ReparseInit /\ [][ReparseNext]_vars

(***************************************************************************)
(* The lexer under a long chain of entity expansions: the parser pushes a  *)
(* replacement text back with reparse and reads it from the queue before   *)
(* the next reference is expanded, so that next_token never finds the      *)
(* queue empty and reparse_depth is never reset.                           *)
(***************************************************************************)
\* u8::MAX, the largest value of reparse_depth and max_entity_expansion_depth
U8Max == 255

\* the calls of reparse in SpecDeep
MaxDeepCalls == 256

\* the values of max_entity_expansion_depth SpecDeep starts from
DeepDepths == { 0, 1, U8Max }

\* the replacement text of the chain
DeepMarkups == { <<"a">> }

DeepInit ==
    /\ \E d \in DeepDepths : LexerStart(LexerNew(d, MaxQueue), <<>>)
    /\ WIdle
    /\ RIdle
    /\ TIdle
    /\ NIdle

\* lexer.reparse(markup).  The += on a u8 that holds 255 panics in a build
\* with overflow checks and wraps to 0 in one without; after the panic
\* nothing is called.
LxReparseDeep ==
    /\ lx_op.op # "panic"
    /\ lx_ops < MaxDeepCalls
    /\ lx_ops' = lx_ops + 1
    /\ lx_prev' = [l |-> lx_lexer, b |-> lx_source]
    /\ \E markup \in DeepMarkups, overflow_checks \in BOOLEAN :
          IF overflow_checks /\ markup # <<>> /\ lx_lexer.reparse_depth = U8Max
          THEN /\ lx_op' = [op |-> "panic", arg |-> markup]
               /\ UNCHANGED <<lx_lexer, lx_result>>
          ELSE LxReparsed(reparse(lx_lexer, markup), markup)
    /\ UNCHANGED <<lx_input, lx_source, lx_tokens, lx_after>>
    /\ UNCHANGED wvars
    /\ UNCHANGED rvars
    /\ UNCHANGED tvars
    /\ UNCHANGED nvars

\* lexer.next_token(&mut source) while the queue holds pushed-back text
LxNextTokenQueued ==
    /\ lx_op.op # "panic"
    /\ lx_lexer.char_queue # <<>>
    /\ LxNextToken

DeepNext ==
    \/ LxReparseDeep
    \/ LxNextTokenQueued

SpecDeep == DeepInit /\ [][DeepNext]_vars

(***************************************************************************)
(* The lexer on an input that arrives in two parts: the consumer reads the *)
(* first part until the lexer has handled the end of the stream, leaves    *)
(* out the result returned there, calls reset_eof_handled and goes on      *)
(* when the producer has appended the second part.                         *)
(***************************************************************************)
\* the pieces a part is made of
MaxPart == 2

SplitPieces ==
    { <<"<">>, <<"/">>, <<">">>, <<"]">>, <<"-">>, SigilComment, SigilCData }

SplitParts == Concatenations(SplitPieces, MaxPart)

SplitInit ==
    /\ \E first \in SplitParts : LexerStart(LexerNew(MaxDepth, MaxLength), first)
    /\ WIdle
    /\ RIdle
    /\ TIdle
    /\ NIdle

\* lexer.next_token(&mut source) until the end of the stream was handled
SplitNextToken ==
    /\ ~lx_lexer.eof_handled
    /\ LxNextToken

\* the consumer leaves out the result of the intermediate end of stream and
\* calls lexer.reset_eof_handled(); the producer appends the second part
SplitResume ==
    /\ lx_lexer.eof_handled
    /\ lx_ops = 0
    /\ lx_ops' = 1
    /\ lx_prev' = [l |-> lx_lexer, b |-> lx_source]
    /\ lx_lexer' = reset_eof_handled(lx_lexer)
    /\ \E second \in SplitParts :
          /\ lx_input' = lx_input \o second
          /\ lx_source' = lx_source \o second
          /\ lx_op' = [op |-> "resume", arg |-> second]
    /\ lx_tokens' = SubSeq(lx_tokens, 1, Len(lx_tokens) - 1)
    /\ lx_result' = [tok |-> NoTok, err |-> NoErr]
    /\ UNCHANGED lx_after
    /\ UNCHANGED wvars
    /\ UNCHANGED rvars
    /\ UNCHANGED tvars
    /\ UNCHANGED nvars

SplitNext ==
    \/ SplitNextToken
    \/ SplitResume

SpecSplit == SplitInit /\ [][SplitNext]_vars

(***************************************************************************)
(* The lexer on a whole input whose consumer goes on calling next_token.   *)
(***************************************************************************)
\* the pieces of an input of SpecRepeated
MaxRepeatedPieces == 3

RepeatedPieces == { <<"<">>, <<"/">>, <<">">>, <<"]">>, <<"-">>, <<"a">>, SigilComment }

RepeatedInit ==
    /\ \E b \in Concatenations(RepeatedPieces, MaxRepeatedPieces) :
          LexerStart(LexerNew(MaxDepth, MaxLength), b)
    /\ WIdle
    /\ RIdle
    /\ TIdle
    /\ NIdle

SpecRepeated == RepeatedInit /\ [][LNext]_vars /\ WF_vars(LxNextToken)

(***************************************************************************)
(* Properties of the writer (checked under SpecWriter).                    *)
(***************************************************************************)
DeclCount(out) == Cardinality({ i \in 1..Len(out) : out[i].k = "xmldecl" })

HasDecl(out) == DeclCount(out) > 0

IsPrefix(s, t) == Len(s) <= Len(t) /\ SubSeq(t, 1, Len(s)) = s

RECURSIVE Scan(_)
\* Reads the output as a parser of tags would: stack holds the names of the
\* start tags not yet closed, in_tag says that the last start tag still
\* lacks its > ; ok says that every end tag named the innermost open
\* element, whose start tag was complete, and that every self-closing
\* terminator ended a start tag that still lacked its > .
Scan(out) ==
    IF out = <<>> THEN [ok |-> TRUE, stack |-> <<>>, in_tag |-> FALSE]
    ELSE LET r == Scan(Front(out))
             c == Last(out)
         IN  CASE c.k = "stag" ->
                    [ok |-> r.ok /\ ~r.in_tag, stack |-> Append(r.stack, c.n),
                     in_tag |-> TRUE]
               [] c.k = "gt" ->
                    [ok |-> r.ok /\ r.in_tag, stack |-> r.stack, in_tag |-> FALSE]
               [] c.k = "etag" ->
                    IF r.stack = <<>> THEN [ok |-> FALSE, stack |-> <<>>, in_tag |-> FALSE]
                    ELSE [ok |-> r.ok /\ ~r.in_tag /\ Last(r.stack) = c.n,
                          stack |-> Front(r.stack), in_tag |-> FALSE]
               [] c.k = "selfclose" ->
                    IF r.stack = <<>> THEN [ok |-> FALSE, stack |-> <<>>, in_tag |-> FALSE]
                    ELSE [ok |-> r.ok /\ r.in_tag, stack |-> Front(r.stack),
                          in_tag |-> FALSE]
               [] OTHER -> r

\* C6: with keep_element_names_stack set, after any sequence of successful
\* writer operations the element-name stack holds exactly the names of the
\* elements started and not yet ended, in start order, and every end tag or
\* self-closing terminator in the output closes the most recently started
\* unclosed element (also when EndElement carried no name).
C6_NameStackMatchesOutput ==
    (emitter.config.keep_element_names_stack /\ all_ok) =>
        /\ Scan(target).ok
        /\ Scan(target).stack = emitter.element_names

\* an end tag written for an EndElement without a name, inside an element
\* that stays open
C6_Witness ==
    /\ emitter.config.keep_element_names_stack
    /\ all_ok
    /\ last_call = [op |-> "emit_end_element", arg |-> NoName]
    /\ Last(target).k = "etag"
    /\ emitter.element_names # <<>>

RECURSIVE TagScan(_)
\* Reads the output for the shape of its tags: in_tag says that the last
\* start tag still lacks its > ; ok says that every > and every
\* self-closing terminator ended such a start tag and that nothing else
\* but a declaration and its indentation was written inside one.
TagScan(out) ==
    IF out = <<>> THEN [ok |-> TRUE, in_tag |-> FALSE]
    ELSE LET r == TagScan(Front(out))
             c == Last(out)
         IN  CASE c.k = "stag" -> [ok |-> r.ok /\ ~r.in_tag, in_tag |-> TRUE]
               [] c.k \in {"gt", "selfclose"} -> [ok |-> r.ok /\ r.in_tag, in_tag |-> FALSE]
               [] c.k \in {"xmldecl", "newline"} -> r
               [] OTHER -> [ok |-> r.ok /\ ~r.in_tag, in_tag |-> FALSE]

\* the chunks of kind k in the output
ChunkCount(out, k) == Cardinality({ i \in 1..Len(out) : out[i].k = k })

\* C11: with normalize_empty_elements an element is ended by the
\* self-closing terminator (" />" with pad_self_closing, "/>" without) if
\* and only if no characters, CDATA, comment, processing instruction or
\* child element was written since its start tag; otherwise, and always
\* without normalize_empty_elements, it is ended by an end tag after a
\* start tag whose > was written exactly once.
C11_SelfClosingIffEmpty ==
    /\ [](TagScan(target).ok)
    /\ [](~emitter.config.normalize_empty_elements =>
             /\ ChunkCount(target, "selfclose") = 0
             /\ ChunkCount(target, "gt") = ChunkCount(target, "stag"))
    /\ [][ (last_call'.op = "emit_end_element" /\ last_result' = "Ok") =>
             IF emitter.config.normalize_empty_elements /\ just_started
             THEN target' = Append(target,
                      Chunk("selfclose",
                            IF emitter.config.pad_self_closing THEN " />" ELSE "/>", 0))
             ELSE /\ Last(target').k = "etag"
                  /\ ~TagScan(target).in_tag
                  /\ ChunkCount(target', "gt") = ChunkCount(target, "gt") ]_vars

\* an empty child written self-closing and unpadded inside a parent that is
\* ended by an end tag
C11_Witness ==
    /\ emitter.config.normalize_empty_elements
    /\ ~emitter.config.pad_self_closing
    /\ Len(target) >= 5
    /\ Last(target).k = "etag"
    /\ target[Len(target) - 1] = Chunk("selfclose", "/>", 0)
    /\ \E i \in 1..Len(target) : target[i].k = "gt"

\* C16, as claimed: with perform_indent, once character data has been
\* written directly inside an element that is still open, no operation up
\* to and including the one that writes its end tag puts out a line
\* separator with indentation.
C16_NoIndentAfterText ==
    [][ (emitter.config.perform_indent /\ \E i \in 1..Len(mixed) : mixed[i]) =>
            ChunkCount(target', "newline") = ChunkCount(target, "newline") ]_vars

\* the chunk a successful markup operation writes for its markup
MarkupKind(op) ==
    CASE op = "emit_start_element" -> "stag"
      [] op = "emit_comment" -> "comment"
      [] op = "emit_processing_instruction" -> "pi"

\* the place in new of the markup chunk of kind k written after old
MarkupIndex(old, new, k) ==
    CHOOSE j \in (Len(old) + 1)..Len(new) : new[j].k = k

\* the indent frame the operation finds when it comes to its markup: the
\* declaration it had to write first, if any, has made it WroteMarkup
FrameBefore(e, old, new) ==
    IF DeclCount(new) > DeclCount(old) THEN "WroteMarkup" ELSE Last(e.indent_stack)

\* C17: with perform_indent, the start tag, comment or processing
\* instruction an operation writes comes right after a line separator with
\* depth indent strings exactly when the current indent frame is not
\* WroteText and the depth is positive or the frame is WroteMarkup; the
\* output never begins with a line separator.
C17_IndentBeforeMarkup ==
    /\ [](target # <<>> => Head(target).k # "newline")
    /\ [][ (/\ emitter.config.perform_indent
            /\ last_call'.op \in {"emit_start_element", "emit_comment",
                                  "emit_processing_instruction"}
            /\ last_result' = "Ok") =>
           ( (/\ MarkupIndex(target, target', MarkupKind(last_call'.op)) > 1
              /\ target'[MarkupIndex(target, target', MarkupKind(last_call'.op)) - 1]
                    = Chunk("newline", "", emitter.indent_level))
             <=> (/\ FrameBefore(emitter, target, target') # "WroteText"
                  /\ \/ emitter.indent_level > 0
                     \/ FrameBefore(emitter, target, target') = "WroteMarkup") ) ]_vars

\* a comment first in the document without separator, a second one on a new
\* line at depth 0, then a start tag on a new line and a processing
\* instruction inside it one level deeper
C17_Witness ==
    /\ emitter.config.perform_indent
    /\ Len(target) = 8
    /\ target[1].k = "comment"
    /\ target[2] = Chunk("newline", "", 0)
    /\ target[3].k = "comment"
    /\ target[4] = Chunk("newline", "", 0)
    /\ target[5].k = "stag"
    /\ target[6].k = "gt"
    /\ target[7] = Chunk("newline", "", 1)
    /\ target[8].k = "pi"

\* C7, as claimed: with write_document_declaration set, whatever is emitted
\* first, the output begins with the XML declaration.
C7_DeclarationFirst ==
    (emitter.config.write_document_declaration /\ target # <<>>) =>
        target[1].k = "xmldecl"

\* C8: emit_start_document fails with DocumentStartAlreadyEmitted and writes
\* nothing whenever the output already holds a declaration, written by an
\* explicit StartDocument or implicitly; otherwise it succeeds; so the
\* output never holds more than one declaration.
C8_DeclarationAtMostOnce ==
    /\ [](DeclCount(target) <= 1)
    /\ [][ last_call'.op = "emit_start_document" =>
             IF HasDecl(target)
             THEN last_result' = "DocumentStartAlreadyEmitted" /\ target' = target
             ELSE last_result' = "Ok" /\ DeclCount(target') = 1 ]_vars

\* StartDocument refused after the declaration was written implicitly by
\* another event
C8_Witness ==
    /\ emitter.config.write_document_declaration
    /\ last_call = [op |-> "emit_start_document", arg |-> "yes"]
    /\ last_result = "DocumentStartAlreadyEmitted"
    /\ target # <<>>
    /\ target[1] = XmlDecl("none")

EndElementErrors ==
    { "LastElementNameNotAvailable",
      "EndElementNameIsNotEqualToLastStartElementName",
      "EndElementNameIsNotSpecified" }

C10_EndElementOutcomes ==
    [][ last_call'.op = "emit_end_element" =>
          LET keep == emitter.config.keep_element_names_stack
              names == emitter.element_names
              name == last_call'.arg
          IN  CASE keep /\ names = <<>> ->
                       /\ last_result' = "LastElementNameNotAvailable"
                       /\ target' = target
                [] keep /\ names # <<>> /\ name # NoName /\ name # Last(names) ->
                       /\ last_result' = "EndElementNameIsNotEqualToLastStartElementName"
                       /\ target' = target
                [] ~keep /\ name = NoName ->
                       /\ last_result' = "EndElementNameIsNotSpecified"
                       /\ target' = target
                [] OTHER ->
                       /\ last_result' = "Ok"
                       /\ IsPrefix(target, target')
                       /\ Len(target') > Len(target)
                       /\ Last(target').k \in {"etag", "selfclose"}
                       /\ Last(target').k = "etag" =>
                              Last(target').n = IF keep THEN Last(names) ELSE name
      ]_vars

\* an EndElement refused for naming another element than the open one
C10_Witness ==
    /\ last_call.op = "emit_end_element"
    /\ last_result = "EndElementNameIsNotEqualToLastStartElementName"
    /\ HasDecl(target)

(***************************************************************************)
(* Properties of the reader (checked under Spec and SpecEntity).           *)
(***************************************************************************)
\* C1: in non-streaming mode, once EventReader::next has returned
\* EndDocument or an error, every further call returns that same value.
C1_TerminalIdempotence ==
    [][ (~parser.config.ignore_end_of_stream /\ Terminal(last_ev)) =>
            last_ev' = last_ev ]_vars

\* EndDocument returned again by two further polls
C1_Witness ==
    /\ ~parser.config.ignore_end_of_stream
    /\ via = "reader"
    /\ last_ev.k = "EndDocument"
    /\ repeats = MaxCount

RECURSIVE EvScan(_)
\* the StartElements of an event stream not yet matched by an EndElement,
\* and whether every EndElement so far matched the innermost of them
EvScan(evs) ==
    IF evs = <<>> THEN [ok |-> TRUE, stack |-> <<>>]
    ELSE LET r == EvScan(Front(evs))
             ev == Last(evs)
         IN  CASE ev.k = "StartElement" -> [ok |-> r.ok, stack |-> Append(r.stack, ev.n)]
               [] ev.k = "EndElement" ->
                    IF r.stack = <<>> THEN [ok |-> FALSE, stack |-> <<>>]
                    ELSE [ok |-> r.ok /\ Last(r.stack) = ev.n, stack |-> Front(r.stack)]
               [] OTHER -> r

\* C2: the events delivered are properly nested: every EndElement matches
\* the innermost unmatched StartElement by name, at every point the
\* element-name stack holds exactly the unmatched StartElements, none is
\* left at EndDocument, and the EndElement of a /> tag is queued to be
\* returned directly after its StartElement.
C2_ProperNesting ==
    LET r == EvScan(delivered)
    IN  /\ r.ok
        /\ parser.est = r.stack
        /\ (delivered # <<>> /\ Last(delivered).k = "EndDocument") => r.stack = <<>>
        /\ parser.next_event # NoEv =>
              /\ parser.next_event.k = "EndElement"
              /\ Last(delivered) = Ev("StartElement", parser.next_event.n)

\* an empty-element tag inside the root element, read to EndDocument
C2_Witness ==
    /\ doc = <<"<", "a", ">", "<", "b", "/", ">", "<", "/", "a", ">">>
    /\ Len(delivered) = 6
    /\ delivered[4] = Ev("EndElement", <<"b">>)
    /\ Last(delivered).k = "EndDocument"

\* C3: in non-streaming mode the Events iterator returns the first
\* EndDocument or the first error once, then None on every later call, and
\* it does not call the reader again.
C3_IteratorFused ==
    /\ []( (via = "events" /\ ~parser.config.ignore_end_of_stream) =>
              /\ it_terminals <= 1
              /\ repeats = 0
              /\ finished = (it_terminals = 1)
              /\ finished => last_item \in {last_ev, NoEv} )
    /\ [][ ( /\ via = "events"
             /\ ~parser.config.ignore_end_of_stream
             /\ finished
             /\ fed' = fed
             /\ adds' = adds ) =>
                /\ last_item' = NoEv
                /\ UNCHANGED <<parser, source, last_ev, delivered>> ]_vars

\* None returned after an error, the source holding bytes still unread
C3_Witness ==
    /\ via = "events"
    /\ ~parser.config.ignore_end_of_stream
    /\ finished
    /\ last_item = NoEv
    /\ last_ev.k = "Error"
    /\ source # <<>>

\* C4, as claimed: in streaming mode, for a document that a reader given
\* the whole input reads to EndDocument, the events delivered are in order
\* and each once those of that reader (a prefix of them at every point, all
\* of them once EndDocument is returned) and no error is final.
C4_StreamingAsWhole ==
    (parser.config.ignore_end_of_stream /\ Last(whole).k = "EndDocument") =>
        /\ IsPrefix(delivered, whole)
        /\ parser.final_result.k # "Error"
        /\ parser.final_result.k = "EndDocument" => delivered = whole

\* the name of the reference that ends a replacement text
LastReference(text) ==
    LET start == CHOOSE i \in 1..Len(text) :
                     text[i] = "&" /\ \A j \in (i + 1)..Len(text) : text[j] # "&"
    IN  SubSeq(text, start + 1, Len(text) - 1)

RECURSIVE ChainLength(_, _, _)
\* the total length of the first n replacement texts of the chain of
\* references that starts at the entity name
ChainLength(entities, name, n) ==
    IF n = 0 THEN 0
    ELSE Len(entities[name])
         + ChainLength(entities, LastReference(entities[name]), n - 1)

\* C5: with max_entity_expansion_depth = N and an entity whose replacement
\* ends in a reference leading back to itself, the first N calls of reparse
\* succeed and the next fails with EntityTooBig, which ends the parse; the
\* characters read from the queue until then are those of N replacement
\* texts, whatever the size of the full expansion.
C5_EntityDepthLimit ==
    LET N == parser.config.max_entity_expansion_depth
    IN  /\ parser.reparse_err <= 1
        /\ parser.reparse_ok <= N
        /\ parser.reparse_err = 1 =>
              /\ parser.reparse_ok = N
              /\ parser.final_result.k = "Error"
              /\ parser.final_result.e.kind = "EntityTooBig"
              /\ parser.lexer.queue_reads - parser.reparse_base
                   = ChainLength(parser.entities, <<"e">>, N)
        /\ Last(whole).e.kind = "EntityTooBig"

\* the fourth reparse refused along a chain of two entities, depth 3
C5_Witness ==
    /\ parser.config.max_entity_expansion_depth = 3
    /\ <<"f">> \in DOMAIN parser.entities
    /\ parser.reparse_ok = 3
    /\ parser.reparse_err = 1
    /\ last_ev.e.kind = "EntityTooBig"

RECURSIVE DepthAfter(_)
\* the depth skip has counted after the events evs: 1 for the element whose
\* start tag was seen before the call, one more for each StartElement, one
\* less for each EndElement
DepthAfter(evs) ==
    IF evs = <<>> THEN 1
    ELSE DepthAfter(Front(evs))
         + (CASE Last(evs).k = "StartElement" -> 1
              [] Last(evs).k = "EndElement" -> -1
              [] OTHER -> 0)

\* the events the step has added to those delivered
Consumed == SubSeq(delivered', Len(delivered) + 1, Len(delivered'))

\* C18: a call of skip made when the last event delivered was the
\* StartElement of E either returns Ok, having consumed events up to and
\* including the EndElement of E and no further (nested elements counted),
\* so that the reader goes on after that end tag; or returns the first
\* error met, having consumed no end of E.  It never meets EndDocument.
C18_SkipToMatchingEnd ==
    [][ skips' # skips =>
          /\ skip_result' \in {"Ok", "Err"}
          /\ \A i \in 0..(Len(Consumed) - 1) : DepthAfter(SubSeq(Consumed, 1, i)) > 0
          /\ skip_result' = "Ok" =>
                /\ Consumed # <<>>
                /\ DepthAfter(Consumed) = 0
                /\ Last(Consumed) = Ev("EndElement", last_ev.n)
                /\ last_ev' = Last(Consumed)
          /\ skip_result' = "Err" =>
                /\ last_ev'.k = "Error"
                /\ DepthAfter(Consumed) > 0 ]_vars

\* skip was called on the start tag of a, returned Ok having gone over a
\* nested element, and the next event was then read
C18_Witness ==
    /\ skips = 1
    /\ skip_result = "Ok"
    /\ Len(delivered) = 6
    /\ delivered[2] = Ev("StartElement", <<"a">>)
    /\ delivered[3].k = "StartElement"
    /\ delivered[4].k = "EndElement"
    /\ delivered[5] = Ev("EndElement", <<"a">>)
    /\ delivered[6].k = "EndDocument"
    /\ last_ev.k = "EndDocument"

\* the StartElement of the root element has been produced
RootProduced == \E i \in 1..Len(delivered) : delivered[i].k = "StartElement"

RECURSIVE TextOf(_)
TextOf(evs) ==
    IF evs = <<>> THEN <<>>
    ELSE TextOf(Front(evs))
         \o (IF Last(evs).k = "Characters" THEN Last(evs).n ELSE <<>>)

LexedAll == t_tokens # <<>> /\ Last(t_tokens) = Eof

RECURSIVE SectionScan(_)
\* toks read as CDATA sections: ok while every token is a CDataStart
\* outside a section, or a Character or CDataEnd inside one; chars are the
\* characters of the sections so far, n is the number of sections ended
SectionScan(toks) ==
    IF toks = <<>> THEN [ok |-> TRUE, inside |-> FALSE, chars |-> <<>>, n |-> 0]
    ELSE LET r == SectionScan(Front(toks))
             t == Last(toks)
         IN  CASE t.t = "CDataStart" -> [r EXCEPT !.ok = r.ok /\ ~r.inside, !.inside = TRUE]
               [] t.t = "Character"  -> [r EXCEPT !.ok = r.ok /\ r.inside,
                                                  !.chars = Append(r.chars, t.c)]
               [] t.t = "CDataEnd"   -> [r EXCEPT !.ok = r.ok /\ r.inside, !.inside = FALSE,
                                                  !.n = r.n + 1]
               [] t = Eof            -> [r EXCEPT !.ok = r.ok /\ ~r.inside /\ r.n > 0]
               [] OTHER              -> [r EXCEPT !.ok = FALSE]

\* C12: what emit_cdata writes for any content over { ] > a } is read back
\* by the lexer without error as complete CDATA sections (CDataStart,
\* Character tokens, CDataEnd) with nothing between them, and the characters
\* of the sections, in order, are the content: a prefix of it while the
\* lexer reads, the whole of it at the end of the stream.
C12_CDataRoundTrip ==
    (t_kind = "cdata" /\ t_result # "None") =>
        /\ t_result = "Ok"
        /\ t_error = NoErr
        /\ SectionScan(t_tokens).ok
        /\ IsPrefix(SectionScan(t_tokens).chars, t_content)
        /\ LexedAll => SectionScan(t_tokens).chars = t_content

\* a content holding ]]> twice was read back whole, as three sections
C12_Witness ==
    /\ t_kind = "cdata"
    /\ t_content = <<"]", "]", ">", "]", "]", ">">>
    /\ LexedAll
    /\ SectionScan(t_tokens).n = 3
    /\ SectionScan(t_tokens).chars = t_content

\* the lexer has stopped: at the end of the stream or at an error
LexStopped == LexedAll \/ t_error # NoErr

\* every token of toks is a Character
AllCharacters(toks) == \A i \in 1..Len(toks) : toks[i].t = "Character"

\* C13, as claimed: for any comment content and either setting of
\* autopad_comments, what emit_comment writes is read back by the lexer as
\* one comment: CommentStart, Character tokens, CommentEnd, then the end of
\* the stream, with no error.
C13_CommentWellFormed ==
    (t_kind = "comment" /\ t_result # "None" /\ LexStopped) =>
        /\ t_error = NoErr
        /\ Len(t_tokens) >= 3
        /\ Head(t_tokens) = Tok("CommentStart", "")
        /\ t_tokens[Len(t_tokens) - 1] = Tok("CommentEnd", "")
        /\ AllCharacters(SubSeq(t_tokens, 2, Len(t_tokens) - 2))

CommentBody(out) == SubSeq(out, 5, Len(out) - 3)

RECURSIVE Rebuilt(_)
\* the string built from toks by push_to_string
Rebuilt(toks) ==
    IF toks = <<>> THEN <<>> ELSE push_to_string(Last(toks), Rebuilt(Front(toks)))

\* C19, as claimed: for any data that does not hold ?>, the tokens the lexer
\* returns between the target of <?x data?> and ProcessingInstructionEnd,
\* put back into a string by push_to_string, are the data.
C19_InstructionDataIsRaw ==
    (t_kind = "pi" /\ t_result # "None" /\ LexStopped
        /\ find(t_content, <<"?", ">">>) = 0) =>
        /\ t_error = NoErr
        /\ Len(t_tokens) >= 5
        /\ SubSeq(t_tokens, 1, 3)
             = <<Tok("ProcessingInstructionStart", ""), Character("x"), Character(" ")>>
        /\ t_tokens[Len(t_tokens) - 1] = Tok("ProcessingInstructionEnd", "")
        /\ Rebuilt(SubSeq(t_tokens, 4, Len(t_tokens) - 2)) = t_content

(***************************************************************************)
(* Properties of the namespace declarations (checked under SpecNamespace). *)
(***************************************************************************)
\* how many of the declarations decls are for prefix p and URI u
Declared(decls, p, u) ==
    Cardinality({ i \in 1..Len(decls) : decls[i] = Xmlns(p, u) })

EndOfStream ==
    /\ lx_op.op = "next_token"
    /\ ~lx_prev.l.eof_handled
    /\ lx_lexer.eof_handled

\* the position after the characters of text, counted from the start
RECURSIVE PositionAfter(_)
PositionAfter(text) ==
    IF text = <<>> THEN TextPosition(0, 0)
    ELSE IF Last(text) = "\n" THEN new_line(PositionAfter(Front(text)))
    ELSE advance(PositionAfter(Front(text)))

\* the states in the middle of a markup that cannot end there
MidMarkup(st) ==
    \/ st.name \in {"TagStarted", "CommentOrCDataOrDoctypeStarted", "CommentStarted",
                    "CDataStarted", "DoctypeStarted", "InsideComment",
                    "InsideProcessingInstruction", "ProcessingInstructionClosing",
                    "InsideDoctype", "InsideMarkupDeclaration",
                    "InsideMarkupDeclarationQuotedString"}
    \/ st = St("CommentClosing", "Second")

\* C22: when the source is exhausted the result depends on the state the
\* lexer is in: Normal gives Eof; InsideCdata and CDataClosing give the
\* error UnclosedCdata; every state in the middle of another markup gives
\* the error UnexpectedEof; both errors are positioned at the end of the
\* input.
C22_EndOfStreamByState ==
    EndOfStream =>
        /\ lx_lexer.st = Normal => lx_result = [tok |-> Eof, err |-> NoErr]
        /\ lx_lexer.st.name \in {"InsideCdata", "CDataClosing"} =>
              lx_result = [tok |-> NoTok,
                           err |-> Err("UnclosedCdata", <<>>, "", PositionAfter(lx_input))]
        /\ MidMarkup(lx_lexer.st) =>
              lx_result = [tok |-> NoTok,
                           err |-> Err("UnexpectedEof", <<>>, "", PositionAfter(lx_input))]

\* the input ends inside the quoted string of a markup
\* declaration, and the end is reported there
C22_Witness ==
    /\ EndOfStream
    /\ lx_lexer.st = St("InsideMarkupDeclarationQuotedString", "Double")
    /\ lx_result.err.kind = "UnexpectedEof"
    /\ lx_result.err.pos = TextPosition(0, Len(lx_input))
    /\ Len(lx_input) > Len(SigilDoctype)

\* neither reparse nor reset_eof_handled has been called
Undisturbed == lx_ops = 0

\* the tokens next_token returned, an error counting as no token
Returned_tokens == [i \in 1..Len(lx_tokens) |-> lx_tokens[i].tok]

NoLexError == \A i \in 1..Len(lx_tokens) : lx_tokens[i].err = NoErr

\* the characters the lexer has read from the source
Consumed_input == SubSeq(lx_input, 1, Len(lx_input) - Len(lx_source))

\* C23: when the source is exhausted while the lexer holds a / , a - inside
\* a comment or one or two ] outside CDATA, each held character is returned
\* as one Character token exactly once: the text of the tokens returned,
\* followed by the characters pushed back, is the text read from the source.
\* Once the end of the stream has been reported, by a token or by an error,
\* every further next_token returns Eof and leaves the lexer and the source
\* as they are, until reparse or reset_eof_handled is called.
C23_HeldCharactersOnceThenEof ==
    /\ (lx_op.op = "next_token" /\ lx_prev.l.eof_handled) =>
          /\ lx_result = [tok |-> Eof, err |-> NoErr]
          /\ lx_source = lx_prev.b
          /\ lx_lexer = lx_prev.l
    /\ EndOfStream =>
          /\ lx_lexer.st = St("EmptyTagClosing", "") =>
                lx_result = [tok |-> Character("/"), err |-> NoErr]
          /\ lx_lexer.st = St("CommentClosing", "First") =>
                lx_result = [tok |-> Character("-"), err |-> NoErr]
          /\ lx_lexer.st = St("InvalidCDataClosing", "First") =>
                lx_result = [tok |-> Character("]"), err |-> NoErr]
    /\ lx_lexer.st # St("InvalidCDataClosing", "Second")
    /\ (Undisturbed /\ NoLexError) =>
          Rebuilt(Returned_tokens) \o lx_lexer.char_queue = Consumed_input

\* the source held ]] when it was exhausted: both are returned, then Eof,
\* and Eof again without reading the a the source was given since
C23_Witness ==
    /\ Undisturbed
    /\ lx_input = <<"]", "]", "a">>
    /\ lx_source = <<"a">>
    /\ Returned_tokens = <<Character("]"), Character("]"), Eof, Eof>>
    /\ lx_op.op = "next_token"

\* the last call was a reparse of a non-empty markup
Reparsed == lx_op.op = "reparse" /\ lx_op.arg # <<>>

\* r is what next_token returns when the saved characters of the lexer
\* before the last call stand at the head of the source instead: the same
\* result, the same state and the same characters left
SameAsRead(r) ==
    /\ r.tok = lx_result.tok
    /\ r.err.kind = lx_result.err.kind
    /\ r.err.chunk = lx_result.err.chunk
    /\ r.err.c = lx_result.err.c
    /\ r.l.st = lx_lexer.st
    /\ r.l.normal_state = lx_lexer.normal_state
    /\ r.l.eof_handled = lx_lexer.eof_handled
    /\ r.l.char_queue \o r.b = lx_lexer.char_queue \o lx_source

\* C24: a successful reparse(s) of a non-empty s puts the characters of s,
\* in order, before the characters already saved and clears the end-of-stream
\* flag; next_token dispatches the saved characters first, in order, then
\* the characters of the source: it returns what it would return with the
\* saved characters standing at the head of the source.  reparse("") leaves
\* the lexer as it is.
C24_ReparsedTextIsReadFirst ==
    /\ (Reparsed /\ lx_result.err = NoErr) =>
          /\ lx_lexer.char_queue = lx_op.arg \o lx_prev.l.char_queue
          /\ ~lx_lexer.eof_handled
          /\ lx_lexer.st = lx_prev.l.st
    /\ (lx_op.op = "reparse" /\ lx_op.arg = <<>>) =>
          /\ lx_lexer = lx_prev.l
          /\ lx_result.err = NoErr
    /\ (lx_op.op = "next_token" /\ ~lx_prev.l.eof_handled) =>
          SameAsRead(next_token([lx_prev.l EXCEPT !.char_queue = <<>>],
                                lx_prev.l.char_queue \o lx_prev.b))

\* the source /a was read up to the a, which is saved, and Eof was not yet
\* reached; after reparse("<a>") the tokens are those of <a>, then the a
C24_Witness ==
    /\ lx_input = <<"/", "a">>
    /\ lx_ops = 1
    /\ lx_op.op = "next_token"
    /\ Returned_tokens = <<Character("/"), Tok("OpeningTagStart", ""), Character("a"),
                           Tok("TagEnd", ""), Character("a")>>

Max(a, b) == IF a >= b THEN a ELSE b

C26_DepthResetBySourceRead ==
    /\ (lx_op.op = "next_token" /\ lx_source # lx_prev.b) => lx_lexer.reparse_depth = 0
    /\ (Reparsed /\ lx_prev.l.reparse_depth = 0
          /\ Len(lx_prev.l.char_queue) <= lx_prev.l.max_entity_expansion_length) =>
          /\ lx_result.err = NoErr
          /\ lx_lexer.reparse_depth = 1

\* <a> was reparsed and read, then the a of the source, then ab is
\* reparsed: the second reparse is at depth 1 again
C26_Witness ==
    /\ lx_input = <<"a">>
    /\ lx_source = <<>>
    /\ Returned_tokens = <<Tok("OpeningTagStart", ""), Character("a"),
                           Tok("TagEnd", ""), Character("a")>>
    /\ lx_op = [op |-> "reparse", arg |-> <<"a", "b">>]
    /\ lx_ops = 2
    /\ lx_result.err = NoErr
    /\ lx_lexer.reparse_depth = 1

\* what next_token returned: a token, without error
Token_ok(tok) == [tok |-> tok, err |-> NoErr]

\* the input after its first n characters
After(n) == SubSeq(lx_input, n + 1, Len(lx_input))

\* the results of next_token are those of a section opened by start whose
\* text is the first n characters of text: start, one Character for each
\* character of the text, in order, and then a result for which ended holds
SectionRead(start, text, n) ==
    \A k \in 1..Len(lx_tokens) :
        /\ k = 1 => lx_tokens[k] = Token_ok(start)
        /\ (1 < k /\ k <= n + 1) => lx_tokens[k] = Token_ok(Character(text[k - 1]))

\* the ] at the end of text that the lexer holds until it has read the next
\* character: at most two
HeldBrackets(text) ==
    IF text # <<>> /\ Last(text) = "]"
    THEN IF Len(text) > 1 /\ text[Len(text) - 1] = "]" THEN 2 ELSE 1
    ELSE 0

\* C27: after CDataStart the lexer returns one Character token for each
\* character of the text before the first ]]>, in order, whatever the
\* characters are, and then CDataEnd; without a ]]> the text is returned up
\* to the ] held at its end and the end of the stream is the error
\* UnclosedCdata.
C27_CDataTextVerbatim ==
    IsPrefix(SigilCData, lx_input) =>
        LET text == After(Len(SigilCData))
            i    == find(text, <<"]", "]", ">">>)
            n    == IF i = 0 THEN Len(text) - HeldBrackets(text) ELSE i - 1
        IN  /\ SectionRead(Tok("CDataStart", ""), text, n)
            /\ Len(lx_tokens) >= n + 2 =>
                  IF i # 0 THEN lx_tokens[n + 2] = Token_ok(Tok("CDataEnd", ""))
                  ELSE lx_tokens[n + 2].err.kind = "UnclosedCdata"

\* the section a]]]> : the a, one ] and the terminator
C27_Witness ==
    /\ lx_input = SigilCData \o <<"a", "]", "]", "]", ">">>
    /\ Returned_tokens = <<Tok("CDataStart", ""), Character("a"), Character("]"),
                           Tok("CDataEnd", "")>>
    /\ NoLexError

\* C28: in a comment every character before the first -- is returned as a
\* Character token, a single - included; -- followed by > is CommentEnd and
\* -- followed by another character c is the error UnexpectedTokenBefore
\* ("--", c).  Outside a comment the characters - and a are Character tokens
\* wherever they stand.
C28_DoubleDashInComment ==
    /\ IsPrefix(SigilComment, lx_input) =>
          LET text == After(Len(SigilComment))
              i    == find(text, <<"-", "-">>)
              n    == IF i = 0 THEN Len(text) ELSE i - 1
          IN  /\ SectionRead(Tok("CommentStart", ""), text, n)
              /\ (Len(lx_tokens) >= n + 2 /\ i # 0 /\ Len(text) >= i + 2) =>
                    IF text[i + 2] = ">"
                    THEN lx_tokens[n + 2] = Token_ok(Tok("CommentEnd", ""))
                    ELSE /\ lx_tokens[n + 2].tok = NoTok
                         /\ lx_tokens[n + 2].err.kind = "UnexpectedTokenBefore"
                         /\ lx_tokens[n + 2].err.chunk = <<"-", "-">>
                         /\ lx_tokens[n + 2].err.c = text[i + 2]
    /\ lx_input \in CommentTexts =>
          \A k \in 1..Len(lx_tokens) :
              k <= Len(lx_input) =>
                  lx_tokens[k] = Token_ok(IF lx_input[k] = ">" THEN Tok("TagEnd", "")
                                          ELSE Character(lx_input[k]))

\* the comment <!---a--a : the single - and the a are content, the -- before
\* the second a is the error
C28_Witness ==
    /\ lx_input = SigilComment \o <<"-", "a", "-", "-", "a">>
    /\ Len(lx_tokens) = 4
    /\ SubSeq(Returned_tokens, 1, 3)
          = <<Tok("CommentStart", ""), Character("-"), Character("a")>>
    /\ lx_result.err.kind = "UnexpectedTokenBefore"
    /\ lx_result.err.chunk = <<"-", "-">>
    /\ lx_result.err.c = "a"

\* the prefixes of the sigils that are neither empty nor the whole sigil
ProperPrefixes ==
    (Prefixes(SigilComment) \cup Prefixes(SigilCData) \cup Prefixes(SigilDoctype))
        \ { <<>>, SigilComment, SigilCData, SigilDoctype }

\* the character c continues the prefix p outside a DOCTYPE: towards a
\* sigil, or after < as the start of a tag or of an instruction
Continues(p, c) ==
    \/ \E sigil \in {SigilComment, SigilCData, SigilDoctype} : IsPrefix(Append(p, c), sigil)
    \/ p = <<"<">> /\ (c \in {"?", "/"} \/ is_whitespace_char(c) \/ is_name_char(c))

\* the input starts with lead, then the prefix p, then c that does not
\* continue it, and the tokens of the lead have been returned
PrefixBroken(lead, p, c) ==
    /\ IsPrefix(lead \o p \o <<c>>, lx_input)
    /\ ~Continues(p, c)
    /\ Len(lx_tokens) > Len(lead)

\* C29, as claimed: a proper prefix p of a sigil followed by a character c
\* that cannot continue it is the error UnexpectedTokenBefore(p, c),
\* positioned at the < that started the prefix, with no token returned for
\* the prefix.
C29_PrefixErrorAtSigil ==
    \A lead \in Leads, p \in ProperPrefixes, c \in TailChars :
        PrefixBroken(lead, p, c) =>
            /\ \A k \in 1..Len(lead) : lx_tokens[k] = Token_ok(Character(lead[k]))
            /\ lx_tokens[Len(lead) + 1]
                  = [tok |-> NoTok,
                     err |-> Err("UnexpectedTokenBefore", p, c, PositionAfter(lead))]

\* what holds of the error whatever stands before the prefix: its kind, the
\* prefix and the character, and a position that is the one the lexer had
\* read up to when the call began
C29_PrefixErrorNamesPrefix ==
    \A lead \in Leads, p \in ProperPrefixes, c \in TailChars :
        PrefixBroken(lead, p, c) =>
            /\ \A k \in 1..Len(lead) : lx_tokens[k] = Token_ok(Character(lead[k]))
            /\ lx_tokens[Len(lead) + 1].tok = NoTok
            /\ lx_tokens[Len(lead) + 1].err.kind = "UnexpectedTokenBefore"
            /\ lx_tokens[Len(lead) + 1].err.chunk = p
            /\ lx_tokens[Len(lead) + 1].err.c = c
            /\ lx_tokens[Len(lead) + 1].err.pos
                  = IF lead = <<"/">> THEN PositionAfter(lead \o <<"<">>)
                    ELSE PositionAfter(lead)

\* the context the lexer returns to after a tag: normal_state
InDoctype(l) == l.normal_state = St("InsideDoctype", "")

\* the character the call of next_token dispatched first
FirstDispatched == Head(lx_prev.l.char_queue \o lx_prev.b)

SecondColon(n) ==
    LET colons == { i \in DOMAIN n : n[i] = ":" }
        later  == { i \in colons : \E j \in colons : j < i }
    IN  IF later = {} THEN 0 ELSE CHOOSE i \in later : \A j \in later : i <= j

\* the events of what stands before the tag
EventsBefore(pre) ==
    CASE pre = <<>> -> <<Ev("StartDocument", <<>>)>>
      [] pre = <<"<", "b", ">">> ->
            <<Ev("StartDocument", <<>>), Ev("StartElement", <<"b">>)>>

\* the error of the second : of the name n in the document
SecondColonError(pre, form, n) ==
    ErrEv(Err("UnexpectedQualifiedName", <<":">>, "",
              TextPosition(0, Len(pre) + Len(TagBefore(form)) + SecondColon(n) - 1)))

\* C21: a name of an element, of an attribute or of an end tag with a
\* second : makes the reader return the syntax error "Unexpected token
\* inside qualified name: :" positioned at that : (0-based column), after
\* the events of what stands before the tag and no other; the reader
\* returns no event for the tag.  This holds of the document read at once
\* and of the document read in streaming mode as it arrives.
C21_SecondColonIsError ==
    \A pre \in Before, form \in Forms, n \in QualifiedNames :
        (doc = QualifiedDoc(pre, form, n) /\ SecondColon(n) # 0) =>
            /\ whole = Append(EventsBefore(pre), SecondColonError(pre, form, n))
            /\ parser.config.ignore_end_of_stream =>
                  /\ IsPrefix(delivered, EventsBefore(pre))
                  /\ parser.final_result # NoEv =>
                        parser.final_result = SecondColonError(pre, form, n)
                  /\ (last_ev.k = "Error" /\ last_ev.e.kind # "UnexpectedEof") =>
                        /\ last_ev = SecondColonError(pre, form, n)
                        /\ delivered = EventsBefore(pre)

\* <b><a:a:/> read in streaming mode to the error at column 7, after
\* StartDocument and StartElement b
C21_Witness ==
    /\ doc = <<"<", "b", ">", "<", "a", ":", "a", ":", "/", ">">>
    /\ parser.config.ignore_end_of_stream
    /\ delivered = <<Ev("StartDocument", <<>>), Ev("StartElement", <<"b">>)>>
    /\ last_ev.k = "Error"
    /\ last_ev.e.kind = "UnexpectedQualifiedName"
    /\ last_ev.e.chunk = <<":">>
    /\ last_ev.e.pos = TextPosition(0, 7)

(***************************************************************************)
(* Further properties of the emitter.                                      *)
(***************************************************************************)
RECURSIVE OpenScan(_, _, _)
\* scanning the output backwards from chunk i past depth elements that
\* were ended: the place of the start tag of the innermost element still
\* open, 0 if there is none
OpenScan(out, i, depth) ==
    IF i = 0 THEN 0
    ELSE CASE out[i].k \in {"etag", "selfclose"} -> OpenScan(out, i - 1, depth + 1)
           [] out[i].k = "stag" ->
                IF depth = 0 THEN i ELSE OpenScan(out, i - 1, depth - 1)
           [] OTHER -> OpenScan(out, i - 1, depth)

OpenIndex(out) == OpenScan(out, Len(out), 0)

\* a chunk of one of the kinds was written inside the innermost open element
WroteInside(out, kinds) ==
    \E j \in (OpenIndex(out) + 1)..Len(out) : out[j].k \in kinds

\* C31, as claimed: with perform_indent an end tag </name> comes right
\* after a line separator with indentation exactly when a child element, a
\* comment or a processing instruction was written inside the element it
\* closes and no character data was; an element with nothing inside it gets
\* none.
C31_EndIndentOnlyAfterMarkup ==
    [][ (/\ emitter.config.perform_indent
         /\ last_call'.op = "emit_end_element"
         /\ last_result' = "Ok"
         /\ Last(target').k = "etag"
         /\ OpenIndex(target) > 0) =>
        ( target'[Len(target') - 1].k = "newline"
          <=> (/\ WroteInside(target, {"stag", "comment", "pi"})
               /\ ~WroteInside(target, {"text", "cdata"})) ) ]_vars

\* what the code does: the end tag is indented when the depth is positive
\* and the frame of the element is WroteMarkup, which it is from its own
\* start tag on and again after every child, comment or instruction
C31_EndIndentByFrame ==
    [][ (/\ emitter.config.perform_indent
         /\ last_call'.op = "emit_end_element"
         /\ last_result' = "Ok"
         /\ Last(target').k = "etag") =>
        ( (Len(target') > 1 /\ target'[Len(target') - 1].k = "newline")
          <=> (emitter.indent_level > 0 /\ Last(emitter.indent_stack) = "WroteMarkup") ) ]_vars

\* the closing > of a start tag is pending
PendingStartTag(e) == e.config.normalize_empty_elements /\ e.just_wrote_start_element

\* C34, as claimed: while the > of a start tag is pending, whatever an
\* operation writes begins with that > or with the self-closing terminator.
C34_PendingTagClosedFirst ==
    [][ (PendingStartTag(emitter) /\ target' # target) =>
            /\ IsPrefix(target, target')
            /\ target'[Len(target) + 1].k \in {"gt", "selfclose"} ]_vars

\* what holds: every operation but emit_start_document closes the pending
\* start tag before it writes
C34_PendingTagClosedByOthers ==
    [][ (/\ PendingStartTag(emitter)
         /\ target' # target
         /\ last_call'.op # "emit_start_document") =>
            /\ IsPrefix(target, target')
            /\ target'[Len(target) + 1].k \in {"gt", "selfclose"} ]_vars

\* emit_end_element was refused for naming another element than the open one
NameMismatch(call, result) ==
    /\ call.op = "emit_end_element"
    /\ result = "EndElementNameIsNotEqualToLastStartElementName"

\* C38, as claimed: an emit_end_element that fails with
\* EndElementNameIsNotEqualToLastStartElementName leaves the emitter as it
\* was, the element-name stack included.
C38_MismatchLeavesEmitter ==
    [][ NameMismatch(last_call', last_result') => emitter' = emitter ]_vars

\* C38, amended: an emit_end_element that fails with
\* EndElementNameIsNotEqualToLastStartElementName writes nothing and leaves
\* indent level, indent stack and just_wrote_start_element as they were, but
\* it has popped the name of the open element from the element-name stack.
C38_MismatchPopsName ==
    [][ NameMismatch(last_call', last_result') =>
            /\ target' = target
            /\ emitter.element_names # <<>>
            /\ emitter' = [emitter EXCEPT !.element_names = Front(@)] ]_vars

\* after the refusal one element is open and no name is left on the stack
C38_Witness ==
    /\ NameMismatch(last_call, last_result)
    /\ emitter.indent_level = 1
    /\ emitter.element_names = <<>>
    /\ emitter.just_wrote_start_element

RECURSIVE DepthOf(_)
\* the start elements written minus the end elements written while an
\* element was open
DepthOf(out) ==
    IF out = <<>> THEN 0
    ELSE LET d == DepthOf(Front(out))
         IN  CASE Last(out).k = "stag" -> d + 1
               [] Last(out).k \in {"etag", "selfclose"} -> IF d > 0 THEN d - 1 ELSE 0
               [] OTHER -> d

\* C39: the indent stack is never empty and holds one frame more than
\* indent_level, and indent_level is the number of start elements written
\* minus the number of end elements written while an element was open; it
\* is never negative.
C39_IndentStackMatchesLevel ==
    /\ emitter.indent_stack # <<>>
    /\ Len(emitter.indent_stack) = emitter.indent_level + 1
    /\ emitter.indent_level = DepthOf(target)
    /\ emitter.indent_level >= 0

\* name tracking off: two end elements with nothing open, then a start
\* element
C39_Witness ==
    /\ ~emitter.config.keep_element_names_stack
    /\ ChunkCount(target, "etag") = 2
    /\ ChunkCount(target, "stag") = 1
    /\ Last(target).k \in {"stag", "gt"}
    /\ emitter.indent_level = 1
    /\ Len(emitter.indent_stack) = 2

(***************************************************************************)
(* Further properties of the lexer.                                        *)
(***************************************************************************)
\* C35, as claimed: whenever the lexer is in state Normal its default
\* state normal_state is Normal as well.
C35_NormalHasNormalDefault ==
    lx_lexer.st = Normal => lx_lexer.normal_state = Normal

\* what holds: the lexer is in state Normal inside the DOCTYPE context only
\* after the end of a CDATA section that was opened there
C35_NormalInDoctypeAfterCData ==
    (lx_lexer.st = Normal /\ InDoctype(lx_lexer)) =>
        \E k \in 1..Len(lx_tokens) : lx_tokens[k].tok = Tok("CDataEnd", "")

(***************************************************************************)
(* Further properties of the reader.                                       *)
(***************************************************************************)
\* C37, as claimed: at whatever point of the document skip is called, it
\* returns Ok or Err: it never reaches unreachable!() and never consumes
\* EndDocument.
C37_SkipNeverPanics ==
    skip_result # "Panic"

\* what holds: a skip that meets EndDocument was called when the last event
\* was not a StartElement
C37_PanicOnlyOffStartTag ==
    [][ (skips' # skips /\ skip_result' = "Panic") => last_ev.k # "StartElement" ]_vars

\* C36, as claimed: the increment of the 8-bit reparse_depth in reparse
\* never overflows: no call of reparse with a non-empty text is made while
\* reparse_depth is 255, whatever max_entity_expansion_depth is and also
\* after EntityTooBig was returned.
C36_DepthNeverOverflows ==
    ~ ( /\ lx_op.op \in { "reparse", "panic" }
        /\ lx_op.arg # <<>>
        /\ lx_prev.l.reparse_depth = U8Max )

\* what holds: below the overflow every call of reparse with a non-empty
\* text adds exactly one to reparse_depth, whether it returns Ok or
\* EntityTooBig
C36_EveryCallCounts ==
    (lx_op.op = "reparse" /\ lx_op.arg # <<>> /\ lx_prev.l.reparse_depth < U8Max)
        => lx_lexer.reparse_depth = lx_prev.l.reparse_depth + 1

RECURSIVE LexWhole(_, _, _)

\* the results of n calls of next_token from r on, up to the call that
\* handles the end of the stream
LexedOn(r, n) ==
    <<[tok |-> r.tok, err |-> r.err]>>
        \o (IF r.l.eof_handled THEN <<>> ELSE LexWhole(r.l, r.b, n))

\* the results of lexing b in one go with at most n calls
LexWhole(l, b, n) ==
    IF n = 0 THEN <<>> ELSE LexedOn(next_token(l, b), n - 1)

\* the results of lexing all that was fed in one go
WholeResults ==
    LexWhole(LexerNew(MaxDepth, MaxLength), lx_input, 2 * Len(lx_input) + 2)

\* a result without the position of its error
Unplaced(r) == [tok |-> r.tok, kind |-> r.err.kind, chunk |-> r.err.chunk, c |-> r.err.c]

\* the token sequence of a sequence of results
TokensOf(results) == [i \in DOMAIN results |-> Unplaced(results[i])]

\* both parts were read to the end
SplitDone == lx_ops = 1 /\ lx_lexer.eof_handled

\* C33, as claimed: an input fed in two parts, with the result returned at
\* the intermediate end of stream left out and reset_eof_handled called,
\* gives the same results as the concatenated input lexed in one go.
C33_SplitEquivalent ==
    SplitDone => TokensOf(lx_tokens) = TokensOf(WholeResults)

\* what holds: the two differ only where lexing in one go finds the ]]> of
\* a CDataEnd outside a CDATA section that the split cut after its ]]
C33_SplitDiffersAtCDataEnd ==
    (SplitDone /\ TokensOf(lx_tokens) # TokensOf(WholeResults))
        => \E i \in DOMAIN WholeResults :
              /\ WholeResults[i].tok = Tok("CDataEnd", "")
              /\ i <= Len(lx_tokens)
              /\ lx_tokens[i].tok = Character("]")
              /\ \A j \in 1..(i - 1) : Unplaced(lx_tokens[j]) = Unplaced(WholeResults[j])

\* the characters a lexer has still to read: its queue and the source
Remaining(l, b) == Len(l.char_queue) + Len(b)

\* a call of next_token leaves fewer characters to read (what it pushed back
\* is less than what it consumed) or handles the end of the stream; a call
\* that follows an error completes the token the failed call began and
\* pushes back no more than it consumed itself
CallConsumes ==
    (lx_op'.op = "next_token" /\ lx_tokens' # lx_tokens /\ ~lx_lexer.eof_handled)
        => \/ lx_lexer'.eof_handled
           \/ Remaining(lx_lexer', lx_source') < Remaining(lx_lexer, lx_source)
           \/ /\ lx_result.err # NoErr
              /\ lx_result'.tok # NoTok
              /\ Remaining(lx_lexer', lx_source') = Remaining(lx_lexer, lx_source)

\* C40: on a finite input without reparse every call of next_token reads
\* fewer characters back into the queue than it consumed, unless it handles
\* the end of the stream, and repeated calls eventually return Eof.
C40_LexerTerminates ==
    /\ [][CallConsumes]_vars
    /\ <>(lx_result.tok = Eof /\ lx_lexer.eof_handled)

\* Eof was returned after characters were pushed back and read again
C40_Witness ==
    /\ lx_result.tok = Eof
    /\ lx_lexer.queue_reads > 1
    /\ Len(lx_tokens) > 2

\* the tokens the lexer returns between <!-- and the end of a comment
CommentTokens ==
    { Character(c) : c \in {"c", "-", "<", " "} } \cup { Tok("CommentEnd", "") }

\* the events of kind k delivered so far
DeliveredOf(k) == SelectSeq(delivered, LAMBDA e : e.k = k)

\* what inside_comment does to the parser p on token t, by the claim
CommentFrame(p, t, r) ==
    IF p.config.ignore_comments
    THEN /\ r.ev = NoEv
         /\ r.p.buf = p.buf
         /\ r.p.st = IF t.t = "CommentEnd" THEN "OutsideTag" ELSE "InsideComment"
    ELSE IF t.t = "CommentEnd"
    THEN /\ r.ev = Ev("Comment", p.buf)
         /\ r.p.buf = <<>>
         /\ r.p.st = "OutsideTag"
    ELSE /\ r.ev = NoEv
         /\ r.p.buf = p.buf \o push_to_string(t, <<>>)
         /\ r.p.st = "InsideComment"

\* the document holds the comment body between pre and post
DocIs(pre, body, post) == doc = CommentDoc(pre, body, post)

\* C32: with ignore_comments a comment gives no event and its tokens leave
\* the text buffer as it was, so the text around it is delivered as one run;
\* without it CommentEnd gives one Comment event that holds the tokens read
\* since <!-- and empties the buffer; either way the parser goes on in
\* OutsideTag.
C32_CommentFrame ==
    /\ parser.st = "InsideComment"
          => \A t \in CommentTokens : CommentFrame(parser, t, inside_comment(parser, t))
    /\ \A pre \in Around, body \in CommentBodies, post \in Around :
          DocIs(pre, body, post) =>
             IF parser.config.ignore_comments
             THEN /\ DeliveredOf("Comment") = <<>>
                  /\ \A i \in DOMAIN DeliveredOf("Characters") :
                        DeliveredOf("Characters")[i].n = pre \o post
             ELSE /\ Len(DeliveredOf("Comment")) <= 1
                  /\ (~parser.config.ignore_end_of_stream /\ DeliveredOf("Comment") # <<>>)
                        => DeliveredOf("Comment")[1].n = body
                  /\ \A i \in DOMAIN DeliveredOf("Characters") :
                        DeliveredOf("Characters")[i].n \in {pre, post}

\* a comment between two texts was read to the end of the element, ignored
C32_Witness ==
    /\ DocIs(<<"x">>, <<"c", "<">>, <<"x">>)
    /\ parser.config.ignore_comments
    /\ DeliveredOf("Characters") # <<>>
    /\ delivered[Len(delivered)].k = "EndElement"

\* the same comment was delivered as an event
C32_WitnessEvent ==
    /\ DocIs(<<"x">>, <<"c", "<">>, <<"x">>)
    /\ ~parser.config.ignore_comments
    /\ DeliveredOf("Comment") # <<>>
    /\ Len(DeliveredOf("Characters")) = 2

====
